---- MODULE Spec2Model ----
(***************************************************************************)
(* MIND cognitive runtime (cr_state.c, cr_query.c, cr_temporal.c,          *)
(* cr_persist.c, cr_runtime.c): the fixed-capacity associative memory, its *)
(* update / query engine and its binary persistence codec.                 *)
(*                                                                         *)
(* The C code computes in IEEE-754 binary32 (`float`, built with           *)
(* -std=c11 -fno-fast-math, so no contraction and no flush-to-zero).  The  *)
(* model computes in the same format, bit for bit: a float is the record   *)
(* [s, e, m] standing for (-1)^s * m * 2^e, with round-to-nearest-even,    *)
(* gradual underflow, infinities and NaN.  TLC's integers are 32 bits      *)
(* wide, so the 48-bit intermediate results are held in two limbs or       *)
(* reduced with a sticky bit before they are rounded.                      *)
(***************************************************************************)
EXTENDS Integers, Sequences, FiniteSets, TLC

(***************************************************************************)
(* binary32                                                                *)
(***************************************************************************)
P12 == 2^12
P20 == 2^20
P23 == 2^23
P24 == 2^24
\* exponent of the unit in the last place of the subnormals and of the
\* largest finite numbers; F32ESpecial tags the infinities and NaN
F32EMin == 0 - 149
F32EMax == 254 - 150
F32ESpecial == F32EMax + 1

F32(s, e, m) == [s |-> s, e |-> e, m |-> m]
F32Zero(s) == F32(s, F32EMin, 0)
F32Inf(s) == F32(s, F32ESpecial, 0)
F32NaN == F32(0, F32ESpecial, 1)
F32One == F32(0, 0 - 23, P23)

F32IsNaN(a) == a.e = F32ESpecial /\ a.m # 0
F32IsInf(a) == a.e = F32ESpecial /\ a.m = 0
F32IsZero(a) == a.e # F32ESpecial /\ a.m = 0
F32Neg(a) == IF F32IsNaN(a) THEN a ELSE F32(1 - a.s, a.e, a.m)

\* number of significant bits of x, 0 <= x < 2^31
BitLen(x) ==
  IF x < 65536
  THEN IF x < 256
       THEN IF x < 16
            THEN IF x < 4 THEN (IF x < 2 THEN x ELSE 2)
                          ELSE (IF x < 8 THEN 3 ELSE 4)
            ELSE IF x < 64 THEN (IF x < 32 THEN 5 ELSE 6)
                           ELSE (IF x < 128 THEN 7 ELSE 8)
       ELSE IF x < 4096
            THEN IF x < 1024 THEN (IF x < 512 THEN 9 ELSE 10)
                             ELSE (IF x < 2048 THEN 11 ELSE 12)
            ELSE IF x < 16384 THEN (IF x < 8192 THEN 13 ELSE 14)
                              ELSE (IF x < 32768 THEN 15 ELSE 16)
  ELSE IF x < 16777216
       THEN IF x < 1048576
            THEN IF x < 262144 THEN (IF x < 131072 THEN 17 ELSE 18)
                               ELSE (IF x < 524288 THEN 19 ELSE 20)
            ELSE IF x < 4194304 THEN (IF x < 2097152 THEN 21 ELSE 22)
                                ELSE (IF x < 8388608 THEN 23 ELSE 24)
       ELSE IF x < 268435456
            THEN IF x < 67108864 THEN (IF x < 33554432 THEN 25 ELSE 26)
                                 ELSE (IF x < 134217728 THEN 27 ELSE 28)
            ELSE IF x < 1073741824 THEN (IF x < 536870912 THEN 29 ELSE 30)
                                   ELSE 31

\* q with the sticky bit or-ed into its last bit
Jam(q, sticky) == IF sticky /\ q % 2 = 0 THEN q + 1 ELSE q

\* x shifted right by d bits, the bits shifted out or-ed into the last bit
ShrJam(x, d) ==
  IF d <= 0 THEN x
  ELSE IF d > 30 THEN (IF x # 0 THEN 1 ELSE 0)
  ELSE Jam(x \div 2^d, x % 2^d # 0)

\* the float of sign s, significand m < 2^24 and exponent e, overflow to
\* infinity included
F32Pack(s, e, m) ==
  IF m = 0 THEN F32Zero(s)
  ELSE IF e > F32EMax THEN F32Inf(s)
  ELSE F32(s, e, m)

\* round to nearest, ties to even: quotient q, remainder r, half unit h
RoundNearest(q, r, h) == IF r > h \/ (r = h /\ q % 2 = 1) THEN q + 1 ELSE q

RoundCarry(s, e, m) == IF m = P24 THEN F32Pack(s, e + 1, P23) ELSE F32Pack(s, e, m)

\* the bits to drop from a significand of 24 + d0 bits at exponent e: more
\* of them when the result is subnormal
DropBits(e, d0) == IF e + d0 < F32EMin THEN F32EMin - e ELSE d0

RoundDrop(s, e, x, d) ==
  IF d <= 0 THEN F32Pack(s, e + d, x * 2^(0 - d))
  ELSE IF d > 30 THEN F32Zero(s)
  ELSE RoundCarry(s, e + d, RoundNearest(x \div 2^d, x % 2^d, 2^(d - 1)))

\* x * 2^e (0 <= x < 2^30) rounded to nearest, ties to even.  x may carry a
\* sticky last bit when at least two of its bits are dropped.
F32Round(s, e, x) ==
  IF x = 0 THEN F32Zero(s) ELSE RoundDrop(s, e, x, DropBits(e, BitLen(x) - 24))

\* a finite non-zero float with its significand shifted up to 24 bits
NormShift(a, sh) == [e |-> a.e - sh, m |-> a.m * 2^sh]
F32Norm(a) == NormShift(a, 24 - BitLen(a.m))

\* the 48-bit product of two 24-bit significands, from 12-bit limbs: the
\* top 28 bits and a sticky bit are rounded
MulSum(s, e, h, t) ==
  F32Round(s, e, Jam((h + (t \div P24)) * 16 + ((t % P24) \div P20), t % P20 # 0))
MulMid(s, e, hh, mid, ll) == MulSum(s, e, hh + (mid \div P12), ll + (mid % P12) * P12)
MulLimbs(s, e, xh, xl, yh, yl) == MulMid(s, e, xh * yh, xh * yl + xl * yh, xl * yl)
MulNorm(s, x, y) ==
  MulLimbs(s, x.e + y.e + 20, x.m \div P12, x.m % P12, y.m \div P12, y.m % P12)

\* a * b
F32Mul(a, b) ==
  IF F32IsNaN(a) \/ F32IsNaN(b) THEN F32NaN
  ELSE IF F32IsInf(a) \/ F32IsInf(b)
       THEN (IF F32IsZero(a) \/ F32IsZero(b) THEN F32NaN ELSE F32Inf((a.s + b.s) % 2))
  ELSE IF a.m = 0 \/ b.m = 0 THEN F32Zero((a.s + b.s) % 2)
  ELSE MulNorm((a.s + b.s) % 2, F32Norm(a), F32Norm(b))

\* the sum of two finite non-zero floats, big the one of larger exponent:
\* x and y are the significands aligned on big.e - 5
AddSig(big, sml, x, y) ==
  F32Round(IF big.s = sml.s THEN big.s
           ELSE IF x = y THEN 0 ELSE IF x > y THEN big.s ELSE sml.s,
           big.e - 5,
           IF big.s = sml.s THEN x + y ELSE IF x >= y THEN x - y ELSE y - x)
AddOrdered(big, sml) == AddSig(big, sml, big.m * 32, ShrJam(sml.m * 32, big.e - sml.e))

\* a + b
F32Add(a, b) ==
  IF F32IsNaN(a) \/ F32IsNaN(b) THEN F32NaN
  ELSE IF F32IsInf(a)
       THEN (IF F32IsInf(b) /\ a.s # b.s THEN F32NaN ELSE a)
  ELSE IF F32IsInf(b) THEN b
  ELSE IF a.m = 0 /\ b.m = 0 THEN (IF a.s = 1 /\ b.s = 1 THEN a ELSE F32Zero(0))
  ELSE IF a.m = 0 THEN b
  ELSE IF b.m = 0 THEN a
  ELSE AddOrdered(IF a.e >= b.e THEN a ELSE b, IF a.e >= b.e THEN b ELSE a)

F32Sub(a, b) == F32Add(a, F32Neg(b))

\* one step of the long division by d: k more quotient bits
DivStep(qr, d, k) ==
  [q |-> qr.q * 2^k + ((qr.r * 2^k) \div d), r |-> (qr.r * 2^k) % d]

DivJam(s, e, qr) == F32Round(s, e, Jam(qr.q, qr.r # 0))

\* the quotient of two 24-bit significands to 27 fractional bits
DivNorm(s, x, y) ==
  DivJam(s, x.e - y.e - 27,
    DivStep(DivStep(DivStep(DivStep(DivStep(
      [q |-> x.m \div y.m, r |-> x.m % y.m], y.m, 6), y.m, 6), y.m, 6), y.m, 6), y.m, 3))

\* a / b
F32Div(a, b) ==
  IF F32IsNaN(a) \/ F32IsNaN(b) THEN F32NaN
  ELSE IF F32IsInf(a) THEN (IF F32IsInf(b) THEN F32NaN ELSE F32Inf((a.s + b.s) % 2))
  ELSE IF F32IsInf(b) THEN F32Zero((a.s + b.s) % 2)
  ELSE IF b.m = 0 THEN (IF a.m = 0 THEN F32NaN ELSE F32Inf((a.s + b.s) % 2))
  ELSE IF a.m = 0 THEN F32Zero((a.s + b.s) % 2)
  ELSE DivNorm((a.s + b.s) % 2, F32Norm(a), F32Norm(b))

\* the square root of n * 4^14 (n < 2^26), digit by digit: n's 13 bit pairs
\* first, then 14 pairs of zeros; rem = 0 exactly when the root is exact
RECURSIVE SqrtDigits(_, _, _, _)
SqrtStep(n, i, r4, root) ==
  IF r4 >= root * 4 + 1 THEN SqrtDigits(n, i + 1, r4 - (root * 4 + 1), root * 2 + 1)
  ELSE SqrtDigits(n, i + 1, r4, root * 2)
SqrtDigits(n, i, rem, root) ==
  IF i = 27 THEN [root |-> root, rem |-> rem]
  ELSE SqrtStep(n, i, rem * 4 + (IF i < 13 THEN (n \div 4^(12 - i)) % 4 ELSE 0), root)

SqrtJam(e, sq) == F32Round(0, e, Jam(sq.root, sq.rem # 0))
SqrtEven(n, e2) == SqrtJam((e2 \div 2) - 14, SqrtDigits(n, 0, 0, 0))
SqrtNorm(x) ==
  SqrtEven(IF x.e % 2 # 0 THEN x.m * 2 ELSE x.m, IF x.e % 2 # 0 THEN x.e - 1 ELSE x.e)

\* sqrtf(a), correctly rounded
F32Sqrt(a) ==
  IF F32IsNaN(a) THEN F32NaN
  ELSE IF a.m = 0 /\ a.e # F32ESpecial THEN a
  ELSE IF a.s = 1 THEN F32NaN
  ELSE IF F32IsInf(a) THEN a
  ELSE SqrtNorm(F32Norm(a))

\* the comparisons of C: false whenever an operand is NaN, -0 = +0
F32Eq(a, b) ==
  /\ ~F32IsNaN(a) /\ ~F32IsNaN(b)
  /\ \/ a = b
     \/ (F32IsZero(a) /\ F32IsZero(b))

F32MagLt(a, b) == a.e < b.e \/ (a.e = b.e /\ a.m < b.m)

F32Lt(a, b) ==
  /\ ~F32IsNaN(a) /\ ~F32IsNaN(b)
  /\ ~(F32IsZero(a) /\ F32IsZero(b))
  /\ IF a.s # b.s THEN a.s = 1
     ELSE IF a.s = 0 THEN F32MagLt(a, b) ELSE F32MagLt(b, a)

F32Gt(a, b) == F32Lt(b, a)
F32Le(a, b) == F32Lt(a, b) \/ F32Eq(a, b)
F32Ge(a, b) == F32Le(b, a)

(***************************************************************************)
(* Constants (cr_internal.h) and bounds of the model                       *)
(***************************************************************************)
CR_EPSILON == F32(0, 0 - 28, 13421773)          \* 0.05f
CR_SIM_THRESHOLD == F32(0, 0 - 24, 14260634)    \* 0.85f
CR_DECAY_RATE == F32(0, 0 - 24, 16693330)       \* 0.995f
CR_RECOVERY_RATE == F32(0, 0 - 23, 8392802)     \* 1.0005f
CR_MAGIC == 1296649796
CR_PERSIST_VERSION == 1

\* embedding dimension and largest slot capacity of the configurations
Dim == 2
MaxSlots == 2
\* updates per run while the host explores, and while it repeats a pattern
MaxUpdates == 3
MaxRepeat == 600
\* the long run: the update count the soaking host skips ahead to, two
\* short of 2^24, and the count it stops at
SoakUpdates == P24 - 2
SoakEnd == P24 + 2
\* updates per run of the recovering host
MaxRecover == 15
\* updates per run of the host that saves and loads
MaxPersistUpdates == 2
\* updates between two resets of each of two stores that share a runtime
MaxSharedUpdates == 2
\* updates of the store that two threads work on
MaxRaceUpdates == 3

\* pointers: NULL, or the one-element sequence holding the object
NULL == << >>
Ptr(x) == << x >>

F32Half == F32(0, 0 - 24, P23)
F32Two == F32(0, 0 - 22, P23)
F32MinusOne == F32(1, 0 - 23, P23)
\* 2^-25, less than half a unit in the last place of 1.0
F32Tick == F32(0, 0 - 48, P23)
\* x = 0x1.b3f3cap-75 and y = 0x1.c9f25cp-75: x*x, y*y and x*y are subnormal
F32TinyX == F32(0, 0 - 98, 14285285)
F32TinyY == F32(0, 0 - 98, 15005998)

Vec(x, y) == [i \in 1..Dim |-> IF i = 1 THEN x ELSE IF i = 2 THEN y ELSE F32Zero(0)]
VecE1 == Vec(F32One, F32Zero(0))
VecE2 == Vec(F32Zero(0), F32One)
VecE3 == Vec(F32One, F32Half)
VecDiag == Vec(F32Half, F32Half)
VecZero == Vec(F32Zero(0), F32Zero(0))
VecTinyX == Vec(F32TinyX, F32Zero(0))
VecTinyY == Vec(F32TinyY, F32Zero(0))
\* 2^-100 along the first axis: its square is less than any float but 0
VecFaint == Vec(F32(0, 0 - 123, P23), F32Zero(0))
\* a vector whose cosine similarity with VecE1 is CR_SIM_THRESHOLD exactly
VecAtThreshold == Vec(CR_SIM_THRESHOLD, F32(0, 0 - 24, 8837946))

(***************************************************************************)
(* cr_runtime.c                                                            *)
(***************************************************************************)
cr_runtime_create(cfg) ==
  IF cfg = NULL THEN NULL
  ELSE IF cfg[1].embedding_dim <= 0 \/ cfg[1].max_memory_slots <= 0 THEN NULL
  ELSE Ptr([dim |-> cfg[1].embedding_dim, max_slots |-> cfg[1].max_memory_slots])

cr_runtime_config(rt, out) ==
  IF rt = NULL \/ out = NULL THEN [ret |-> 0 - 1, out |-> out]
  ELSE [ret |-> 0,
        out |-> Ptr([embedding_dim |-> rt[1].dim,
                     max_memory_slots |-> rt[1].max_slots,
                     initial_plasticity |-> F32One])]

(***************************************************************************)
(* cr_state.c                                                              *)
(***************************************************************************)
RECURSIVE CosineSums(_, _, _, _, _)
CosineSums(a, b, dim, i, acc) ==
  IF i > dim THEN acc
  ELSE CosineSums(a, b, dim, i + 1,
         [dot |-> F32Add(acc.dot, F32Mul(a[i], b[i])),
          norm_a |-> F32Add(acc.norm_a, F32Mul(a[i], a[i])),
          norm_b |-> F32Add(acc.norm_b, F32Mul(b[i], b[i]))])

\* the similarity, had it been 1 where a norm is 0
CosineOfZeroAsOne(s) ==
  IF F32Eq(s.norm_a, F32Zero(0)) \/ F32Eq(s.norm_b, F32Zero(0))
  THEN F32One
  ELSE F32Div(s.dot, F32Mul(F32Sqrt(s.norm_a), F32Sqrt(s.norm_b)))

CosineOf(s) ==
  IF F32Eq(s.norm_a, F32Zero(0)) \/ F32Eq(s.norm_b, F32Zero(0))
  THEN F32Zero(0)
  ELSE F32Div(s.dot, F32Mul(F32Sqrt(s.norm_a), F32Sqrt(s.norm_b)))

cr_cosine_similarity(a, b, dim) ==
  CosineOf(CosineSums(a, b, dim, 1,
             [dot |-> F32Zero(0), norm_a |-> F32Zero(0), norm_b |-> F32Zero(0)]))

\* a store as cr_state_create and cr_state_reset leave it
FreshState(rt) ==
  [rt |-> rt,
   slots |-> [i \in 1..rt.max_slots |->
                [vector |-> [k \in 1..rt.dim |-> F32Zero(0)], weight |-> F32Zero(0)]],
   slot_count |-> 0,
   plasticity |-> F32One,
   age |-> F32Zero(0),
   plasticity_prev |-> F32One,
   velocity |-> F32Zero(0),
   last_reinforcement_age |-> F32Zero(0),
   total_updates |-> 0,
   total_reinforcements |-> 0]

cr_state_create(rt) == IF rt = NULL THEN NULL ELSE Ptr(FreshState(rt[1]))

\* the scalars of cr_state_reset
ResetScalars(s) ==
  [s EXCEPT !.plasticity = F32One,
            !.plasticity_prev = F32One,
            !.velocity = F32Zero(0),
            !.age = F32Zero(0),
            !.last_reinforcement_age = F32Zero(0),
            !.slot_count = 0,
            !.total_updates = 0,
            !.total_reinforcements = 0]

\* the loop of cr_state_reset: every vector filled with zero bytes, which
\* read as the float +0.0, and every weight 0
ClearSlots(s) ==
  [s EXCEPT !.slots = [i \in 1..s.rt.max_slots |->
                        [vector |-> [k \in 1..s.rt.dim |-> F32Zero(0)],
                         weight |-> F32Zero(0)]]]

\* the reset, had it left the slots as they were
cr_state_reset_scalars(st) == IF st = NULL THEN NULL ELSE Ptr(ResetScalars(st[1]))

cr_state_reset(st) == IF st = NULL THEN NULL ELSE Ptr(ClearSlots(ResetScalars(st[1])))

cr_state_slot_count(st) == IF st = NULL THEN 0 - 1 ELSE st[1].slot_count

\* the scan for the closest invariant, written twice in the source (update
\* and query): slot i replaces the best so far only when strictly more
\* similar; best = 0 is the null pointer
\* the scan, had it taken a slot that merely equals the best so far
BetterSlotOrEqual(acc, i, sim) ==
  IF F32Ge(sim, acc.best_sim) THEN [best |-> i, best_sim |-> sim] ELSE acc

BetterSlot(acc, i, sim) ==
  IF F32Gt(sim, acc.best_sim) THEN [best |-> i, best_sim |-> sim] ELSE acc

RECURSIVE ScanSlots(_, _, _, _, _)
ScanSlots(s, v, dim, i, acc) ==
  IF i > s.slot_count THEN acc
  ELSE ScanSlots(s, v, dim, i + 1,
         BetterSlot(acc, i, cr_cosine_similarity(v, s.slots[i].vector, dim)))

\* the scan, had it started below every similarity
FindBestAnySign(s, v, dim) == ScanSlots(s, v, dim, 1, [best |-> 0, best_sim |-> F32MinusOne])

FindBest(s, v, dim) == ScanSlots(s, v, dim, 1, [best |-> 0, best_sim |-> F32Zero(0)])

\* the interpolation, had it weighed the old vector by the plasticity
ReinforceSwapped(slot, embedding, dim, plasticity) ==
  [vector |-> [i \in 1..dim |->
                 F32Add(F32Mul(slot.vector[i], plasticity),
                        F32Mul(embedding[i], F32Sub(F32One, plasticity)))],
   weight |-> F32Add(slot.weight, F32One)]

\* the reinforcement, had it counted the match and kept the vector
ReinforceKeeping(slot, embedding, dim, plasticity) ==
  [vector |-> slot.vector, weight |-> F32Add(slot.weight, F32One)]

\* REINFORCE: the interpolation of the best slot toward the embedding
Reinforce(slot, embedding, dim, plasticity) ==
  [vector |-> [i \in 1..dim |->
                 F32Add(F32Mul(slot.vector[i], F32Sub(F32One, plasticity)),
                        F32Mul(embedding[i], plasticity))],
   weight |-> F32Add(slot.weight, F32One)]

\* the clamp of the plasticity to [CR_EPSILON, 1.0]
\* the ceiling, had it been left out
ClampCeilingOff(p) == p

ClampCeiling(p) == IF F32Gt(p, F32One) THEN F32One ELSE p
\* the clamp, had its ceiling lain at the decay rate, below 1.0
ClampBelowOne(p) ==
  IF F32Ge(p, F32One) THEN CR_DECAY_RATE
  ELSE IF F32Lt(p, CR_EPSILON) THEN CR_EPSILON ELSE p
\* the clamp, had it lost its floor
ClampNoFloor(p) == ClampCeiling(p)
ClampPlasticity(p) == ClampCeiling(IF F32Lt(p, CR_EPSILON) THEN CR_EPSILON ELSE p)

\* the validation, had it left delta_t unchecked
UpdateArgsValidAnyDelta(st, embedding, dim, delta_t) ==
  /\ st # NULL
  /\ embedding # NULL
  /\ dim = st[1].rt.dim

UpdateArgsValid(st, embedding, dim, delta_t) ==
  /\ st # NULL
  /\ embedding # NULL
  /\ dim = st[1].rt.dim
  /\ ~F32Le(delta_t, F32Zero(0))

\* the end of the update, had it taken delta_t off the age
UpdateScalarsRewinding(s, delta_t, reinforced, slots, slot_count, p) ==
  [ret |-> 0,
   st |-> Ptr([rt |-> s.rt,
               slots |-> slots,
               slot_count |-> slot_count,
               plasticity |-> p,
               age |-> F32Sub(s.age, delta_t),
               plasticity_prev |-> s.plasticity,
               velocity |-> F32Div(F32Sub(s.plasticity, p), delta_t),
               last_reinforcement_age |->
                 IF reinforced THEN F32Add(s.age, delta_t) ELSE s.last_reinforcement_age,
               total_updates |-> s.total_updates + 1,
               total_reinforcements |->
                 IF reinforced THEN s.total_reinforcements + 1
                 ELSE s.total_reinforcements])]

\* the end of the update, had the velocity been the rise of the plasticity
UpdateScalarsRising(s, delta_t, reinforced, slots, slot_count, p) ==
  [ret |-> 0,
   st |-> Ptr([rt |-> s.rt,
               slots |-> slots,
               slot_count |-> slot_count,
               plasticity |-> p,
               age |-> F32Add(s.age, delta_t),
               plasticity_prev |-> s.plasticity,
               velocity |-> F32Div(F32Sub(p, s.plasticity), delta_t),
               last_reinforcement_age |->
                 IF reinforced THEN F32Add(s.age, delta_t) ELSE s.last_reinforcement_age,
               total_updates |-> s.total_updates + 1,
               total_reinforcements |->
                 IF reinforced THEN s.total_reinforcements + 1
                 ELSE s.total_reinforcements])]

\* the end of cr_state_update: plasticity p, age, counters and velocity
UpdateScalars(s, delta_t, reinforced, slots, slot_count, p) ==
  [ret |-> 0,
   st |-> Ptr([rt |-> s.rt,
               slots |-> slots,
               slot_count |-> slot_count,
               plasticity |-> p,
               age |-> F32Add(s.age, delta_t),
               plasticity_prev |-> s.plasticity,
               velocity |-> F32Div(F32Sub(s.plasticity, p), delta_t),
               last_reinforcement_age |->
                 IF reinforced THEN F32Add(s.age, delta_t) ELSE s.last_reinforcement_age,
               total_updates |-> s.total_updates + 1,
               total_reinforcements |->
                 IF reinforced THEN s.total_reinforcements + 1
                 ELSE s.total_reinforcements])]

\* the capacity test, had it been written with <=
HasRoomOffByOne(s) == s.slot_count <= s.rt.max_slots

\* the capacity test of the CREATE branch
HasRoom(s) == s.slot_count < s.rt.max_slots

\* the slot, had it been created with no weight
CreatedUnweighted(embedding) == [vector |-> embedding, weight |-> F32Zero(0)]

\* CREATE: the embedding copied, the weight 1.0
Created(embedding) == [vector |-> embedding, weight |-> F32One]

\* the branches, had the plasticity recovered only where a slot is created
\* and been left alone where the observation is ignored
UpdateBranchIgnoring(s, embedding, dim, delta_t, f, reinforced) ==
  UpdateScalars(s, delta_t, reinforced,
    IF reinforced
    THEN [s.slots EXCEPT ![f.best] =
            Reinforce(s.slots[f.best], embedding, dim, s.plasticity)]
    ELSE IF HasRoom(s)
    THEN [s.slots EXCEPT ![s.slot_count + 1] = Created(embedding)]
    ELSE s.slots,
    IF ~reinforced /\ HasRoom(s) THEN s.slot_count + 1 ELSE s.slot_count,
    ClampPlasticity(F32Mul(s.plasticity,
      IF reinforced THEN CR_DECAY_RATE
      ELSE IF HasRoom(s) THEN CR_RECOVERY_RATE ELSE F32One)))

\* the branches, had a full store given up its last slot to an observation
\* it cannot keep
UpdateBranchEvicting(s, embedding, dim, delta_t, f, reinforced) ==
  UpdateScalars(s, delta_t, reinforced,
    IF reinforced
    THEN [s.slots EXCEPT ![f.best] =
            Reinforce(s.slots[f.best], embedding, dim, s.plasticity)]
    ELSE IF HasRoom(s)
    THEN [s.slots EXCEPT ![s.slot_count + 1] = Created(embedding)]
    ELSE s.slots,
    IF reinforced THEN s.slot_count
    ELSE IF HasRoom(s) THEN s.slot_count + 1 ELSE s.slot_count - 1,
    ClampPlasticity(F32Mul(s.plasticity,
      IF reinforced THEN CR_DECAY_RATE ELSE CR_RECOVERY_RATE)))

\* REINFORCE, else CREATE, else ignore; then the plasticity update
UpdateBranch(s, embedding, dim, delta_t, f, reinforced) ==
  UpdateScalars(s, delta_t, reinforced,
    IF reinforced
    THEN [s.slots EXCEPT ![f.best] =
            Reinforce(s.slots[f.best], embedding, dim, s.plasticity)]
    ELSE IF HasRoom(s)
    THEN [s.slots EXCEPT ![s.slot_count + 1] = Created(embedding)]
    ELSE s.slots,
    IF ~reinforced /\ HasRoom(s) THEN s.slot_count + 1 ELSE s.slot_count,
    ClampPlasticity(F32Mul(s.plasticity,
      IF reinforced THEN CR_DECAY_RATE ELSE CR_RECOVERY_RATE)))

\* the update, had it returned at once where the observation is ignored
UpdateFoundEarlyReturn(s, embedding, dim, delta_t, f) ==
  IF ~(f.best # 0 /\ F32Gt(f.best_sim, CR_SIM_THRESHOLD)) /\ ~HasRoom(s)
  THEN [ret |-> 0, st |-> Ptr(s)]
  ELSE UpdateBranch(s, embedding, dim, delta_t, f,
         f.best # 0 /\ F32Gt(f.best_sim, CR_SIM_THRESHOLD))

UpdateFound(s, embedding, dim, delta_t, f) ==
  UpdateBranch(s, embedding, dim, delta_t, f,
    f.best # 0 /\ F32Gt(f.best_sim, CR_SIM_THRESHOLD))

\* the update, had it counted the calls it rejects
cr_state_update_counting(st, embedding, dim, delta_t) ==
  IF st = NULL THEN [ret |-> 0 - 1, st |-> st]
  ELSE IF ~UpdateArgsValid(st, embedding, dim, delta_t)
  THEN [ret |-> 0 - 1, st |-> Ptr([st[1] EXCEPT !.total_updates = @ + 1])]
  ELSE UpdateFound(st[1], embedding[1], dim, delta_t, FindBest(st[1], embedding[1], dim))

cr_state_update(st, embedding, dim, delta_t) ==
  IF ~UpdateArgsValid(st, embedding, dim, delta_t) THEN [ret |-> 0 - 1, st |-> st]
  ELSE UpdateFound(st[1], embedding[1], dim, delta_t, FindBest(st[1], embedding[1], dim))

(***************************************************************************)
(* cr_query.c                                                              *)
(***************************************************************************)
\* the hint the caller's cr_hint_t holds: vector = 0 is the null pointer,
\* vector = i > 0 the address of slot i's buffer
NoHint == [vector |-> 0, dim |-> 0, confidence |-> F32Zero(0)]

\* what the caller's cr_hint_t holds before the call: nothing a query writes
StaleHint == [vector |-> 0, dim |-> 0 - 1, confidence |-> F32MinusOne]

QueryArgsValid(st, query, dim, out) ==
  /\ st # NULL
  /\ query # NULL
  /\ out # NULL
  /\ dim = st[1].rt.dim

\* the derivation, had it taken the plasticity for the stability
ConfidenceOfPlasticity(best_sim, plasticity, weight) ==
  F32Mul(F32Mul(best_sim, plasticity), F32Div(weight, F32Add(weight, F32One)))

\* the confidence derivation
Confidence(best_sim, plasticity, weight) ==
  F32Mul(F32Mul(best_sim, F32Sub(F32One, plasticity)),
         F32Div(weight, F32Add(weight, F32One)))

\* the query, had it counted itself as an observation
QueryFoundCounted(st, dim, f) ==
  [ret |-> 0, st |-> Ptr([st[1] EXCEPT !.total_updates = @ + 1]),
   out |-> Ptr(IF f.best = 0 THEN NoHint
               ELSE [vector |-> f.best, dim |-> dim,
                     confidence |-> Confidence(f.best_sim, st[1].plasticity,
                                               st[1].slots[f.best].weight)])]

QueryFound(st, dim, f) ==
  IF f.best = 0
  THEN [ret |-> 0, st |-> st, out |-> Ptr(NoHint)]
  ELSE [ret |-> 0, st |-> st,
        out |-> Ptr([vector |-> f.best, dim |-> dim,
                     confidence |-> Confidence(f.best_sim, st[1].plasticity,
                                               st[1].slots[f.best].weight)])]

cr_state_query(st, query, dim, out) ==
  IF ~QueryArgsValid(st, query, dim, out) THEN [ret |-> 0 - 1, st |-> st, out |-> out]
  ELSE QueryFound(st, dim, FindBest(st[1], query[1], dim))

(***************************************************************************)
(* cr_temporal.c                                                           *)
(***************************************************************************)
\* the conversion (float)n of an int
F32OfInt(n) == IF n < 0 THEN F32Round(1, 0, 0 - n) ELSE F32Round(0, 0, n)

\* the stability, had it been the plasticity itself
StabilityOfPlasticity(s) == s.plasticity

Stability(s) == F32Sub(F32One, s.plasticity)

cr_state_plasticity(st, out) ==
  IF st = NULL \/ out = NULL THEN [ret |-> 0 - 1, st |-> st, out |-> out]
  ELSE [ret |-> 0, st |-> st,
        out |-> Ptr([plasticity |-> st[1].plasticity,
                     stability |-> Stability(st[1]),
                     age |-> st[1].age])]

cr_state_temporal(st, out) ==
  IF st = NULL \/ out = NULL THEN [ret |-> 0 - 1, st |-> st, out |-> out]
  ELSE [ret |-> 0, st |-> st,
        out |-> Ptr([age |-> st[1].age,
                     plasticity |-> st[1].plasticity,
                     velocity |-> st[1].velocity,
                     maturity |-> F32Mul(st[1].age, Stability(st[1])),
                     last_reinforcement_age |-> st[1].last_reinforcement_age,
                     time_since_reinforcement |->
                       F32Sub(st[1].age, st[1].last_reinforcement_age),
                     total_updates |-> st[1].total_updates,
                     total_reinforcements |-> st[1].total_reinforcements])]

\* the ratio, had it been taken from the weight of the first slot
ReinforcementRatioOfWeight(s) ==
  IF s.total_updates > 0
  THEN F32Div(s.slots[1].weight, F32OfInt(s.total_updates))
  ELSE F32Zero(0)

ReinforcementRatio(s) ==
  IF s.total_updates > 0
  THEN F32Div(F32OfInt(s.total_reinforcements), F32OfInt(s.total_updates))
  ELSE F32Zero(0)

cr_state_calibration(st, out) ==
  IF st = NULL \/ out = NULL THEN [ret |-> 0 - 1, st |-> st, out |-> out]
  ELSE [ret |-> 0, st |-> st,
        out |-> Ptr([age |-> st[1].age,
                     plasticity |-> st[1].plasticity,
                     velocity |-> st[1].velocity,
                     maturity |-> F32Mul(st[1].age, Stability(st[1])),
                     reinforcement_ratio |-> ReinforcementRatio(st[1])])]

(***************************************************************************)
(* cr_persist.c                                                            *)
(*                                                                         *)
(* A file is a sequence of 32-bit words, in the order the code writes      *)
(* them; a float is written as its bit pattern, kept here as the signed    *)
(* 32-bit integer with the same bits.  The model holds one NaN, so every   *)
(* NaN payload reads back as that one.  The stream is taken to reach the   *)
(* file whenever fwrite reported success (fclose is not checked by the     *)
(* code), and a file ends on a word boundary.                              *)
(***************************************************************************)
\* the bits of a float without its sign
F32MagBits(f) ==
  IF F32IsNaN(f) THEN 255 * P23 + P23 \div 2
  ELSE IF F32IsInf(f) THEN 255 * P23
  ELSE IF f.m < P23 THEN f.m
  ELSE (f.e + 150) * P23 + (f.m - P23)

F32Bits(f) ==
  IF f.s = 1 /\ ~F32IsNaN(f) THEN F32MagBits(f) - 2147483647 - 1 ELSE F32MagBits(f)

F32OfMag(s, ex, fr) ==
  IF ex = 255 THEN (IF fr = 0 THEN F32Inf(s) ELSE F32NaN)
  ELSE IF ex = 0 THEN F32(s, F32EMin, fr)
  ELSE F32(s, ex - 150, fr + P23)

F32OfSigned(s, b) == F32OfMag(s, b \div P23, b % P23)

F32FromBits(w) ==
  IF w < 0 THEN F32OfSigned(1, w + 2147483647 + 1) ELSE F32OfSigned(0, w)

\* the words cr_state_save writes for store s: header, scalar state, then
\* the occupied slots
HeaderWords(s) == << CR_MAGIC, CR_PERSIST_VERSION, s.rt.dim, s.rt.max_slots >>

\* the scalar section, had it left plasticity_prev out
ScalarWordsShort(s) ==
  << s.slot_count, F32Bits(s.plasticity), F32Bits(s.age),
     F32Bits(s.velocity), F32Bits(s.last_reinforcement_age),
     s.total_updates, s.total_reinforcements >>

ScalarWords(s) ==
  << s.slot_count, F32Bits(s.plasticity), F32Bits(s.age), F32Bits(s.plasticity_prev),
     F32Bits(s.velocity), F32Bits(s.last_reinforcement_age),
     s.total_updates, s.total_reinforcements >>

SlotWords(s, i) ==
  [k \in 1..(s.rt.dim + 1) |->
     IF k <= s.rt.dim THEN F32Bits(s.slots[i].vector[k]) ELSE F32Bits(s.slots[i].weight)]

RECURSIVE SlotsWords(_, _)
SlotsWords(s, i) ==
  IF i > s.slot_count THEN << >> ELSE SlotWords(s, i) \o SlotsWords(s, i + 1)

\* the image, had it held every slot of the array
FileImageAllSlots(s) ==
  HeaderWords(s) \o ScalarWords(s)
    \o SlotsWords([s EXCEPT !.slot_count = s.rt.max_slots], 1)

FileImage(s) == HeaderWords(s) \o ScalarWords(s) \o SlotsWords(s, 1)

\* io is what the medium does during the call: whether fopen succeeds and
\* how many words it takes before an fwrite fails
Written(image, io) ==
  IF io.room >= Len(image) THEN [ret |-> 0, file |-> Ptr(image)]
  ELSE [ret |-> 0 - 1, file |-> Ptr(SubSeq(image, 1, io.room))]

cr_state_save(st, path, file, io) ==
  IF st = NULL \/ path = NULL THEN [ret |-> 0 - 1, file |-> file]
  ELSE IF ~io.open THEN [ret |-> 0 - 1, file |-> file]
  ELSE Written(FileImage(st[1]), io)

\* the validation, had it left the version unchecked
HeaderAcceptedAnyVersion(w, s) ==
  /\ w[1] = CR_MAGIC
  /\ w[3] = s.rt.dim /\ w[4] = s.rt.max_slots

\* the validation of the header
HeaderAccepted(w, s) ==
  /\ w[1] = CR_MAGIC
  /\ w[2] = CR_PERSIST_VERSION
  /\ w[3] = s.rt.dim /\ w[4] = s.rt.max_slots

\* the reads, had velocity and plasticity_prev been read in the other order
LoadScalarsSwapped(s, w) ==
  [s EXCEPT !.plasticity = IF Len(w) >= 6 THEN F32FromBits(w[6]) ELSE @,
            !.age = IF Len(w) >= 7 THEN F32FromBits(w[7]) ELSE @,
            !.velocity = IF Len(w) >= 8 THEN F32FromBits(w[8]) ELSE @,
            !.plasticity_prev = IF Len(w) >= 9 THEN F32FromBits(w[9]) ELSE @,
            !.last_reinforcement_age = IF Len(w) >= 10 THEN F32FromBits(w[10]) ELSE @]

\* the five floats read straight into the store, as far as the file goes
LoadScalars(s, w) ==
  [s EXCEPT !.plasticity = IF Len(w) >= 6 THEN F32FromBits(w[6]) ELSE @,
            !.age = IF Len(w) >= 7 THEN F32FromBits(w[7]) ELSE @,
            !.plasticity_prev = IF Len(w) >= 8 THEN F32FromBits(w[8]) ELSE @,
            !.velocity = IF Len(w) >= 9 THEN F32FromBits(w[9]) ELSE @,
            !.last_reinforcement_age = IF Len(w) >= 10 THEN F32FromBits(w[10]) ELSE @]

\* slot i after the weights were cleared and the records read as far as the
\* file goes; at is the position before the record of slot i
LoadSlot(slot, w, dim, at, wanted) ==
  [vector |-> [k \in 1..dim |->
                 IF wanted /\ at + k <= Len(w) THEN F32FromBits(w[at + k])
                 ELSE slot.vector[k]],
   weight |-> IF wanted /\ at + dim + 1 <= Len(w) THEN F32FromBits(w[at + dim + 1])
              ELSE F32Zero(0)]

\* the counters assigned, the weights cleared, the slot records read.  A
\* slot_count above max_slots makes the loop index past the slot array once
\* the file has supplied max_slots records: undefined behaviour (ub)
LoadSlots(s, w, slot_count, need) ==
  [ret |-> IF Len(w) >= need /\ slot_count <= s.rt.max_slots THEN 0 ELSE 0 - 1,
   ub |-> slot_count > s.rt.max_slots /\ Len(w) >= 12 + s.rt.max_slots * (s.rt.dim + 1),
   st |-> Ptr([s EXCEPT
            !.slot_count = slot_count,
            !.total_updates = w[11],
            !.total_reinforcements = w[12],
            !.slots = [i \in 1..s.rt.max_slots |->
                         LoadSlot(s.slots[i], w, s.rt.dim,
                                  12 + (i - 1) * (s.rt.dim + 1), i <= slot_count)]])]

LoadState(s, w) ==
  IF Len(w) < 12 THEN [ret |-> 0 - 1, ub |-> FALSE, st |-> Ptr(LoadScalars(s, w))]
  ELSE LoadSlots(LoadScalars(s, w), w, w[5],
                 IF w[5] > 0 THEN 12 + w[5] * (s.rt.dim + 1) ELSE 12)

cr_state_load(st, path, file) ==
  IF st = NULL \/ path = NULL THEN [ret |-> 0 - 1, ub |-> FALSE, st |-> st]
  ELSE IF file = NULL THEN [ret |-> 0 - 1, ub |-> FALSE, st |-> st]
  ELSE IF Len(file[1]) < 4 THEN [ret |-> 0 - 1, ub |-> FALSE, st |-> st]
  ELSE IF ~HeaderAccepted(file[1], st[1]) THEN [ret |-> 0 - 1, ub |-> FALSE, st |-> st]
  ELSE LoadState(st[1], file[1])

(***************************************************************************)
(* The host: one runtime, one store created from it, one file path, and    *)
(* the calls made on the store.  last is the last call: its arguments      *)
(* (the store argument as "given or null") and what it returned.  fs is    *)
(* the file at the path, with what is known of its origin: the store       *)
(* state it was saved from and whether it is whole, cut short, or had a    *)
(* word replaced.                                                          *)
(***************************************************************************)
VARIABLES cfg, rt, st, last, host, fs, heap, stores, alone, threads

vars == <<cfg, rt, st, last, host, fs, heap, stores, alone, threads>>

\* what only the host of two stores uses: the memory the stores live in,
\* their addresses, and each store as it is when run by itself; and what only
\* the host of two threads uses: where each thread is in its call
shared == <<heap, stores, alone, threads>>

Config(dim, max_slots, p) ==
  [embedding_dim |-> dim, max_memory_slots |-> max_slots, initial_plasticity |-> p]

\* the configurations a host starts from: the default starting plasticity
\* with each capacity, and a lower starting plasticity
DefaultConfigs == {Config(Dim, n, F32One) : n \in 1..MaxSlots}
Configs == DefaultConfigs \cup {Config(Dim, MaxSlots, F32Half)}

\* what cr_runtime_create may be handed: a configuration, no configuration,
\* a dimension or a capacity that is not positive
ConfigArgs ==
  {Ptr(c) : c \in Configs}
  \cup {NULL, Ptr(Config(0, MaxSlots, F32One)), Ptr(Config(Dim, 0, F32One)),
        Ptr(Config(0 - 1, MaxSlots, F32One)), Ptr(Config(Dim, 0 - 1, F32One))}

\* what a host feeds: (embedding, delta_t) of an update
ExploreCalls ==
  {<<VecE1, F32One>>, <<VecE3, F32One>>, <<VecE2, F32Half>>, <<VecZero, F32One>>}
ConfigureCalls ==
  {<<VecE1, F32One>>, <<VecE1, F32Tick>>, <<VecAtThreshold, F32One>>,
   <<VecAtThreshold, F32Tick>>}
RepeatCalls == {<<VecTinyY, F32One>>}
SoakCalls == {<<VecE1, F32One>>}
FaintCalls == {<<VecFaint, F32One>>}
\* the recovering host: a pattern twice, then a pattern that resembles it
\* too little to match
RecoverCalls(n) == IF n < 2 THEN {<<VecE1, F32One>>} ELSE {<<VecDiag, F32One>>}
PersistCalls == {<<VecE1, F32One>>, <<VecE2, F32Half>>}
Queries == {VecE1, VecDiag, VecTinyX}

\* the calls of cr_state_update that violate a precondition: a null store,
\* a null embedding, another dimension, a delta_t that is not positive;
\* only the exploring host tries them all, and a host that has loaded a file
\* goes on with updates and resets alone
BadUpdateCalls ==
  IF host = "loaded" THEN {}
  ELSE IF host # "explore"
  THEN {<<st, Ptr(VecE1), st[1].rt.dim, F32Zero(0)>>}
  ELSE
  {<<NULL, Ptr(VecE1), st[1].rt.dim, F32One>>,
   <<st, NULL, st[1].rt.dim, F32One>>,
   <<st, Ptr(VecE1), st[1].rt.dim + 1, F32One>>,
   <<st, Ptr(VecE1), st[1].rt.dim - 1, F32One>>,
   <<st, Ptr(VecE1), st[1].rt.dim, F32Zero(0)>>,
   <<st, Ptr(VecE1), st[1].rt.dim, F32Zero(1)>>,
   <<st, Ptr(VecE1), st[1].rt.dim, F32MinusOne>>}

\* the calls of cr_state_query: each query vector, and the rejected calls
QueryCalls ==
  IF host = "loaded" THEN {}
  ELSE IF host = "repeat"
  THEN {<<st, Ptr(VecTinyX), st[1].rt.dim, Ptr(StaleHint)>>}
  ELSE IF host # "explore"
  THEN {<<st, Ptr(VecE1), st[1].rt.dim, Ptr(StaleHint)>>}
  ELSE
  {<<st, Ptr(q), st[1].rt.dim, Ptr(StaleHint)>> : q \in Queries}
  \cup {<<NULL, Ptr(VecE1), st[1].rt.dim, Ptr(StaleHint)>>,
        <<st, NULL, st[1].rt.dim, Ptr(StaleHint)>>,
        <<st, Ptr(VecE1), st[1].rt.dim, NULL>>,
        <<st, Ptr(VecE1), st[1].rt.dim + 1, Ptr(StaleHint)>>}

\* the introspection calls: (store, out, function), and the rejected ones
IntrospectCalls ==
  IF host = "loaded" THEN {}
  ELSE IF host = "persist" THEN {<<st, Ptr(0), "temporal">>}
  ELSE
  {<<st, Ptr(0), f>> : f \in {"plasticity", "temporal", "calibration"}}
  \cup (IF host # "explore" THEN {}
        ELSE {<<NULL, Ptr(0), "plasticity">>, <<st, NULL, "temporal">>,
              <<NULL, Ptr(0), "calibration">>})

Called(op, arg, ret, out) == [op |-> op, arg |-> arg, ret |-> ret, out |-> out]

\* the arguments of a call as last keeps them
Args(c) == [c EXCEPT ![1] = (c[1] # NULL)]

\* the runtime is made from the configuration and the store from the
\* runtime; the configuring host tries every configuration, the others run
\* on the default ones
Init ==
  /\ cfg \in ConfigArgs
  /\ rt = cr_runtime_create(cfg)
  /\ st = cr_state_create(rt)
  /\ last = Called("create", << >>, 0, NULL)
  /\ host \in {"explore", "repeat", "configure", "recover"}
  /\ host # "configure" => cfg \in {Ptr(c) : c \in DefaultConfigs}
  /\ fs = NULL
  /\ heap = << >> /\ stores = << >> /\ alone = << >> /\ threads = << >>

\* the store is there, and its slot_count is one the slot array can serve
Alive == st # NULL
InRange(s) == 0 <= s.slot_count /\ s.slot_count <= s.rt.max_slots

\* a call returned r: the store it was made on is what the call left
Returned(op, c, r, out) ==
  /\ st' = IF c[1] = NULL THEN st ELSE r.st
  /\ last' = Called(op, Args(c), r.ret, out)
  /\ UNCHANGED <<cfg, rt, host, fs, shared>>

\* the updates the host makes: while exploring, any of its calls; while
\* repeating, the one pattern again; while configuring, one pattern at a
\* long and at a short interval; around a save and a load, two patterns
HostCalls ==
  IF host = "explore"
  THEN (IF st[1].total_updates < MaxUpdates THEN ExploreCalls ELSE {})
  ELSE IF host = "repeat"
  THEN (IF st[1].total_updates < MaxRepeat THEN RepeatCalls ELSE {})
  ELSE IF host = "configure"
  THEN (IF st[1].total_updates < MaxUpdates THEN ConfigureCalls ELSE {})
  ELSE IF host = "recover"
  THEN (IF st[1].total_updates < MaxRecover
        THEN RecoverCalls(st[1].total_updates) ELSE {})
  ELSE IF host = "soak"
  THEN (IF \/ st[1].total_updates < MaxRepeat
           \/ st[1].total_updates >= SoakUpdates /\ st[1].total_updates < SoakEnd
        THEN SoakCalls ELSE {})
  ELSE IF host = "faint"
  THEN (IF st[1].total_updates < MaxUpdates THEN FaintCalls ELSE {})
  ELSE (IF st[1].total_updates < MaxPersistUpdates THEN PersistCalls ELSE {})

UpdateCalls == {<<st, Ptr(c[1]), st[1].rt.dim, c[2]>> : c \in HostCalls}

Update ==
  /\ Alive /\ InRange(st[1])
  /\ \E c \in UpdateCalls :
       Returned("update", c, cr_state_update(c[1], c[2], c[3], c[4]), NULL)

RejectedUpdate ==
  /\ Alive /\ InRange(st[1])
  /\ \E c \in BadUpdateCalls :
       Returned("update", c, cr_state_update(c[1], c[2], c[3], c[4]), NULL)

QueryReturned(c, r) == Returned("query", c, r, r.out)

Query ==
  /\ Alive /\ InRange(st[1])
  /\ \E c \in QueryCalls : QueryReturned(c, cr_state_query(c[1], c[2], c[3], c[4]))

Reset ==
  /\ Alive
  /\ st' = cr_state_reset(st)
  /\ last' = Called("reset", << >>, 0, NULL)
  /\ UNCHANGED <<cfg, rt, host, fs, shared>>

Introspection(c) ==
  CASE c[3] = "plasticity" -> cr_state_plasticity(c[1], c[2])
    [] c[3] = "temporal" -> cr_state_temporal(c[1], c[2])
    [] OTHER -> cr_state_calibration(c[1], c[2])

IntrospectReturned(c, r) == Returned(c[3], <<c[1], c[2]>>, r, r.out)

Introspect ==
  /\ Alive
  /\ \E c \in IntrospectCalls : IntrospectReturned(c, Introspection(c))

\* the configuration read back, into a cr_config_t or into no place
ConfigRead(r) == last' = Called("config", << >>, r.ret, r.out)

ReadConfig ==
  /\ host = "configure"
  /\ \E out \in {Ptr(0), NULL} : ConfigRead(cr_runtime_config(rt, out))
  /\ UNCHANGED <<cfg, rt, st, host, fs, shared>>

Next == Update \/ RejectedUpdate \/ Query \/ Reset \/ Introspect \/ ReadConfig

Spec == Init /\ [][Next]_vars

(***************************************************************************)
(* The host that also saves and loads.  The medium may refuse to open the  *)
(* file for writing or run out of room after any number of words; a file   *)
(* that was saved whole may then have one word replaced.                   *)
(***************************************************************************)
InitPersist ==
  /\ cfg \in {Ptr(c) : c \in DefaultConfigs}
  /\ rt = cr_runtime_create(cfg)
  /\ st = cr_state_create(rt)
  /\ last = Called("create", << >>, 0, NULL)
  /\ host = "persist"
  /\ fs = NULL
  /\ heap = << >> /\ stores = << >> /\ alone = << >> /\ threads = << >>

File(words, saved, damage) == Ptr([words |-> words, saved |-> saved, damage |-> damage])
FileWords(f) == IF f = NULL THEN NULL ELSE Ptr(f[1].words)

Media == {[open |-> FALSE, room |-> 0]}
         \cup {[open |-> TRUE, room |-> n] : n \in 0..Len(FileImage(st[1]))}

Saved(r, io) ==
  /\ fs' = IF ~io.open THEN fs
           ELSE File(r.file[1], st[1], IF r.ret = 0 THEN "none" ELSE "cut")
  /\ last' = Called("save", << >>, r.ret, NULL)
  /\ UNCHANGED <<cfg, rt, st, host, shared>>

Save ==
  /\ Alive /\ InRange(st[1])
  /\ fs = NULL
  /\ \E io \in Media : Saved(cr_state_save(st, Ptr("path"), FileWords(fs), io), io)

\* where a load indexed past the slot array the build decides what happens:
\* the process dies, or the call comes back having failed
Loaded(r) ==
  /\ \/ ~r.ub /\ st' = r.st /\ last' = Called("load", << >>, r.ret, NULL)
     \/ r.ub /\ st' = r.st /\ last' = Called("load", << >>, 0 - 1, NULL)
     \/ r.ub /\ st' = NULL /\ last' = Called("crashed", << >>, 0, NULL)
  /\ host' = "loaded"
  /\ UNCHANGED <<cfg, rt, fs, shared>>

Load ==
  /\ Alive
  /\ host = "persist"
  /\ Loaded(cr_state_load(st, Ptr("path"), FileWords(fs)))

\* the words another writer may have put in place of the saved ones: another
\* tag, version or configuration, a slot_count or plasticity out of range,
\* more reinforcements than updates
BadWords(w) ==
  {<<1, CR_MAGIC + 1>>, <<2, CR_PERSIST_VERSION + 1>>, <<3, w[3] + 1>>,
   <<4, w[4] + 1>>, <<5, 0 - 1>>, <<5, w[4] + 1>>,
   <<6, F32Bits(F32Two)>>, <<6, F32Bits(F32Zero(0))>>, <<12, w[11] + 1>>}

Corrupt ==
  /\ fs # NULL
  /\ host = "persist"
  /\ fs[1].damage = "none"
  /\ \E b \in BadWords(fs[1].words) :
       fs' = File([fs[1].words EXCEPT ![b[1]] = b[2]], fs[1].saved, "word")
  /\ UNCHANGED <<cfg, rt, st, last, host, shared>>

\* a call that indexes the slot array with a slot_count it cannot serve:
\* the run ends there
UndefinedCall ==
  /\ Alive /\ ~InRange(st[1])
  /\ st' = NULL
  /\ last' = Called("crashed", << >>, 0, NULL)
  /\ UNCHANGED <<cfg, rt, host, fs, shared>>

NextPersist ==
  \/ Update \/ RejectedUpdate \/ Query \/ Introspect \/ Reset
  \/ Save \/ Load \/ Corrupt \/ UndefinedCall

SpecPersist == InitPersist /\ [][NextPersist]_vars

(***************************************************************************)
(* The host of two stores made from one runtime.  The memory is a sequence *)
(* of blocks and an address is an index into it: the runtime is one block, *)
(* and each store is the block of its struct, the block of its slot array  *)
(* and one block per slot vector, as cr_state_create allocates them.  A    *)
(* call reads the store through its pointers and leaves what it wrote      *)
(* where the pointers lead.  alone[i] is store i as the same calls leave   *)
(* it in a run that has no other store.                                    *)
(***************************************************************************)
\* the address of the k-th block the next calls of calloc hand out, had the
\* slot vectors come from one pool that every store of the runtime draws on
CallocPooled(mem, k) ==
  IF k > 2 /\ Len(mem) > 1 THEN 1 + k ELSE Len(mem) + k

\* the address of the k-th block the next calls of calloc hand out: a block
\* that nothing else holds
Calloc(mem, k) == Len(mem) + k

\* the scalar fields of a store, as they lie in the block of its struct
Scalars(s) == [s EXCEPT !.rt = NULL, !.slots = NULL]

\* the blocks of a store made at the end of mem: the struct with its two
\* pointers, the slot array with a pointer per slot, the zeroed vectors
StateBlocks(mem, rtAt, n, dim) ==
  [k \in 1..(2 + n) |->
     IF k = 1 THEN [rt |-> rtAt, slots |-> Calloc(mem, 2), scalars |-> NULL]
     ELSE IF k = 2
     THEN [slot |-> [i \in 1..n |->
                       [vector |-> Calloc(mem, 2 + i), weight |-> F32Zero(0)]]]
     ELSE [floats |-> [d \in 1..dim |-> F32Zero(0)]]]

\* the slot of the store at address a whose vector is the block x
SlotOfVector(mem, a, x) ==
  CHOOSE i \in 1..Len(mem[mem[a].slots].slot) : mem[mem[a].slots].slot[i].vector = x

VectorsOf(mem, a) ==
  {mem[mem[a].slots].slot[i].vector : i \in 1..Len(mem[mem[a].slots].slot)}

\* the store at address a, read through its pointers
StoreAt(mem, a) ==
  [mem[a].scalars EXCEPT
     !.rt = mem[mem[a].rt],
     !.slots = [i \in 1..Len(mem[mem[a].slots].slot) |->
                  [vector |-> mem[mem[mem[a].slots].slot[i].vector].floats,
                   weight |-> mem[mem[a].slots].slot[i].weight]]]

\* the memory once a call has left the store at address a as s: each field
\* written where the store's pointers lead
WrittenAt(mem, a, s) ==
  [x \in 1..Len(mem) |->
     IF x = a THEN [mem[a] EXCEPT !.scalars = Scalars(s)]
     ELSE IF x = mem[a].rt THEN s.rt
     ELSE IF x = mem[a].slots
     THEN [slot |-> [i \in 1..Len(mem[x].slot) |->
                       [mem[x].slot[i] EXCEPT !.weight = s.slots[i].weight]]]
     ELSE IF x \in VectorsOf(mem, a)
     THEN [floats |-> s.slots[SlotOfVector(mem, a, x)].vector]
     ELSE mem[x]]

\* cr_state_create in this memory: the blocks are allocated and linked, and
\* the fields set as the code sets them
cr_state_create_at(mem, rtAt) ==
  [at |-> Calloc(mem, 1),
   mem |-> WrittenAt(mem \o StateBlocks(mem, rtAt, mem[rtAt].max_slots, mem[rtAt].dim),
                   Calloc(mem, 1), FreshState(mem[rtAt]))]

RuntimeAt == 1

\* the memory and the addresses once the runtime r and then two stores of it
\* are made
TwoStores(r) ==
  LET first == cr_state_create_at(<<r>>, RuntimeAt)
      second == cr_state_create_at(first.mem, RuntimeAt)
  IN  [mem |-> second.mem, at |-> <<first.at, second.at>>]

InitShared ==
  /\ cfg \in {Ptr(c) : c \in DefaultConfigs}
  /\ rt = cr_runtime_create(cfg)
  /\ st = NULL
  /\ last = Called("create", << >>, 0, NULL)
  /\ host = "shared"
  /\ fs = NULL
  /\ heap = TwoStores(rt[1]).mem
  /\ stores = TwoStores(rt[1]).at
  /\ alone = [i \in 1..2 |-> cr_state_create(rt)[1]]
  /\ threads = << >>

SharedCalls == {<<VecE1, F32One>>, <<VecE2, F32Half>>, <<VecE3, F32One>>}

\* a call on store i returned r, and returned ra in the run of store i alone
ReturnedOn(op, i, arg, r, ra, out) ==
  /\ heap' = WrittenAt(heap, stores[i], r.st[1])
  /\ alone' = [alone EXCEPT ![i] = ra.st[1]]
  /\ last' = Called(op, <<i>> \o arg, r.ret, out)
  /\ UNCHANGED <<cfg, rt, st, host, fs, stores, threads>>

UpdateOn ==
  /\ host = "shared"
  /\ \E i \in 1..Len(stores) : \E c \in SharedCalls :
       /\ alone[i].total_updates < MaxSharedUpdates
       /\ ReturnedOn("update", i, <<c[1], c[2]>>,
            cr_state_update(Ptr(StoreAt(heap, stores[i])), Ptr(c[1]), Dim, c[2]),
            cr_state_update(Ptr(alone[i]), Ptr(c[1]), Dim, c[2]), NULL)

QueryOn ==
  /\ host = "shared"
  /\ \E i \in 1..Len(stores) : \E q \in {VecE1} :
       \E r \in {cr_state_query(Ptr(StoreAt(heap, stores[i])), Ptr(q), Dim,
                                Ptr(StaleHint))} :
         ReturnedOn("query", i, <<q>>, r,
                    cr_state_query(Ptr(alone[i]), Ptr(q), Dim, Ptr(StaleHint)), r.out)

ResetOn ==
  /\ host = "shared"
  /\ \E i \in 1..Len(stores) :
       /\ heap' = WrittenAt(heap, stores[i],
                          cr_state_reset(Ptr(StoreAt(heap, stores[i])))[1])
       /\ alone' = [alone EXCEPT ![i] = cr_state_reset(Ptr(alone[i]))[1]]
       /\ last' = Called("reset", <<i>>, 0, NULL)
  /\ UNCHANGED <<cfg, rt, st, host, fs, stores, threads>>

NextShared == UpdateOn \/ QueryOn \/ ResetOn

SpecShared == InitShared /\ [][NextShared]_vars

(***************************************************************************)
(* The host of two threads on one store: one thread updates, the other     *)
(* queries, and each call proceeds statement by statement of its source.   *)
(* threads.lock says whether the host puts a mutex around every call: a    *)
(* call then begins only while the other thread is between calls.          *)
(* threads.upd is the updating thread: where it is, its arguments, the     *)
(* store as it was when the call began, and its locals best, reinforced    *)
(* and i.  threads.qry is the querying thread: where it is, its vector,    *)
(* its locals, the hint it wrote, the store as it was at the last call     *)
(* boundary before the query began, and the updates it has overlapped.     *)
(***************************************************************************)
\* whether a call may begin, the other thread being at pc, had the host
\* taken no mutex
MayBeginUnlocked(lock, pc) == TRUE

\* whether a call may begin, the other thread being at pc
MayBegin(lock, pc) == lock => pc \in {"idle", "done"}

RaceCalls == {<<VecE1, F32One>>, <<VecE3, F32One>>}

\* a thread between two calls
Idle == [pc |-> "idle"]

InitRace ==
  /\ cfg \in {Ptr(c) : c \in DefaultConfigs}
  /\ rt = cr_runtime_create(cfg)
  /\ st = cr_state_create(rt)
  /\ last = Called("create", << >>, 0, NULL)
  /\ host = "threads"
  /\ fs = NULL
  /\ heap = << >> /\ stores = << >> /\ alone = << >>
  /\ threads \in {[lock |-> l, upd |-> Idle, qry |-> Idle] : l \in BOOLEAN}

\* the update a thread is in, as the queries that overlap it remember it
UpdateOf(u) == [pre |-> u.pre, e |-> u.e, dt |-> u.dt]

\* the updating thread after the validation, the copy of the plasticity and
\* the scan: it goes on to REINFORCE, to CREATE, or to the plasticity update
BegunUpdate(s, c, f, reinforced) ==
  [pc |-> IF reinforced THEN "lerp" ELSE IF HasRoom(s) THEN "copy" ELSE "decay",
   e |-> c[1], dt |-> c[2], pre |-> s, best |-> f.best,
   reinforced |-> reinforced, i |-> 1]

Overlapping(q, u) ==
  IF q.pc \in {"scan", "derive"}
  THEN [q EXCEPT !.overlapped = @ \cup {UpdateOf(u)}]
  ELSE q

BeginUpdate ==
  /\ host = "threads"
  /\ threads.upd.pc = "idle"
  /\ MayBegin(threads.lock, threads.qry.pc)
  /\ st[1].total_updates < MaxRaceUpdates
  /\ \E c \in RaceCalls :
       \E u \in {BegunUpdate(st[1], c, FindBest(st[1], c[1], Dim),
                   FindBest(st[1], c[1], Dim).best # 0
                   /\ F32Gt(FindBest(st[1], c[1], Dim).best_sim, CR_SIM_THRESHOLD))} :
         /\ threads' = [threads EXCEPT !.upd = u, !.qry = Overlapping(@, u)]
         /\ st' = Ptr([st[1] EXCEPT !.plasticity_prev = st[1].plasticity])
  /\ UNCHANGED <<cfg, rt, last, host, fs, heap, stores, alone>>

\* the store after the statement the updating thread u is at
UpdateStatement(s, u) ==
  CASE u.pc = "lerp" ->
         [s EXCEPT !.slots[u.best].vector[u.i] =
            F32Add(F32Mul(@, F32Sub(F32One, s.plasticity)),
                   F32Mul(u.e[u.i], s.plasticity))]
    [] u.pc = "weight" -> [s EXCEPT !.slots[u.best].weight = F32Add(@, F32One)]
    [] u.pc = "landmark" -> [s EXCEPT !.last_reinforcement_age = F32Add(s.age, u.dt)]
    [] u.pc = "counted" -> [s EXCEPT !.total_reinforcements = @ + 1]
    [] u.pc = "copy" -> [s EXCEPT !.slots[s.slot_count + 1].vector = u.e]
    [] u.pc = "setweight" -> [s EXCEPT !.slots[s.slot_count + 1].weight = F32One]
    [] u.pc = "grow" -> [s EXCEPT !.slot_count = @ + 1]
    [] u.pc = "decay" ->
         [s EXCEPT !.plasticity =
            F32Mul(@, IF u.reinforced THEN CR_DECAY_RATE ELSE CR_RECOVERY_RATE)]
    [] u.pc = "clamp" -> [s EXCEPT !.plasticity = ClampPlasticity(@)]
    [] u.pc = "age" -> [s EXCEPT !.age = F32Add(@, u.dt)]
    [] u.pc = "count" -> [s EXCEPT !.total_updates = @ + 1]
    [] u.pc = "velocity" ->
         [s EXCEPT !.velocity = F32Div(F32Sub(s.plasticity_prev, s.plasticity), u.dt)]

\* the updating thread after the statement it is at
AfterStatement(u) ==
  CASE u.pc = "lerp" ->
         IF u.i < Dim THEN [u EXCEPT !.i = @ + 1] ELSE [u EXCEPT !.pc = "weight"]
    [] u.pc = "weight" -> [u EXCEPT !.pc = "landmark"]
    [] u.pc = "landmark" -> [u EXCEPT !.pc = "counted"]
    [] u.pc = "counted" -> [u EXCEPT !.pc = "decay"]
    [] u.pc = "copy" -> [u EXCEPT !.pc = "setweight"]
    [] u.pc = "setweight" -> [u EXCEPT !.pc = "grow"]
    [] u.pc = "grow" -> [u EXCEPT !.pc = "decay"]
    [] u.pc = "decay" -> [u EXCEPT !.pc = "clamp"]
    [] u.pc = "clamp" -> [u EXCEPT !.pc = "age"]
    [] u.pc = "age" -> [u EXCEPT !.pc = "count"]
    [] u.pc = "count" -> [u EXCEPT !.pc = "velocity"]
    [] u.pc = "velocity" -> Idle

StepUpdate ==
  /\ host = "threads"
  /\ threads.upd.pc # "idle"
  /\ st' = Ptr(UpdateStatement(st[1], threads.upd))
  /\ threads' = [threads EXCEPT !.upd = AfterStatement(@)]
  /\ last' = IF threads.upd.pc = "velocity"
             THEN Called("update", <<TRUE, Ptr(threads.upd.e), Dim, threads.upd.dt>>,
                         0, NULL)
             ELSE last
  /\ UNCHANGED <<cfg, rt, host, fs, heap, stores, alone>>

\* the querying thread after the validation, before its scan
BegunQuery(s, u, v) ==
  [pc |-> "scan", v |-> v, i |-> 1, best |-> 0, best_sim |-> F32Zero(0),
   out |-> StaleHint,
   began |-> IF u.pc = "idle" THEN s ELSE u.pre,
   overlapped |-> IF u.pc = "idle" THEN {} ELSE {UpdateOf(u)}]

BeginQuery ==
  /\ host = "threads"
  /\ threads.qry.pc \in {"idle", "done"}
  /\ MayBegin(threads.lock, threads.upd.pc)
  /\ \E v \in {VecE1} :
       threads' = [threads EXCEPT !.qry = BegunQuery(st[1], threads.upd, v)]
  /\ UNCHANGED <<cfg, rt, st, last, host, fs, heap, stores, alone>>

\* one turn of the scan: the loop test, and the body on slot i
Scanned(q, s, acc) ==
  IF q.i > s.slot_count THEN [q EXCEPT !.pc = "derive"]
  ELSE [q EXCEPT !.i = @ + 1, !.best = acc.best, !.best_sim = acc.best_sim]

\* the end of the query: the hint from the plasticity and the weight as the
\* store holds them now
Derived(q, s) ==
  [q EXCEPT !.pc = "done",
            !.out = QueryFound(Ptr(s), Dim,
                               [best |-> q.best, best_sim |-> q.best_sim]).out[1]]

StepQuery ==
  /\ host = "threads"
  /\ threads.qry.pc \in {"scan", "derive"}
  /\ threads' =
       [threads EXCEPT !.qry =
          IF @.pc = "derive" THEN Derived(@, st[1])
          ELSE Scanned(@, st[1],
                 IF @.i > st[1].slot_count THEN @
                 ELSE BetterSlot(@, @.i,
                        cr_cosine_similarity(@.v, st[1].slots[@.i].vector, Dim)))]
  /\ UNCHANGED <<cfg, rt, st, last, host, fs, heap, stores, alone>>

NextRace == BeginUpdate \/ StepUpdate \/ BeginQuery \/ StepQuery

SpecRace == InitRace /\ [][NextRace]_vars

(***************************************************************************)
(* The hosts that only observe and ask: the recovering host, the host of   *)
(* one faint pattern, and the soaking host: one pattern at one interval,   *)
(* over and over.  Once the store no longer changes but in its counts, the *)
(* soaking host's next updates up to SoakUpdates are taken in one step.    *)
(***************************************************************************)
InitSoak ==
  /\ cfg \in {Ptr(c) : c \in DefaultConfigs}
  /\ rt = cr_runtime_create(cfg)
  /\ st = cr_state_create(rt)
  /\ last = Called("create", << >>, 0, NULL)
  /\ host \in {"soak", "faint", "recover"}
  /\ fs = NULL
  /\ heap = << >> /\ stores = << >> /\ alone = << >> /\ threads = << >>

\* the store s of n updates, k updates of the same pattern at interval 1.0
\* later, where each of them reinforces slot 1 and changes nothing but the
\* counts: the weight, the age and the landmark are the float of n + k,
\* exact below 2^24
Ahead(s, k) ==
  [s EXCEPT !.slots[1].weight = F32OfInt(s.total_updates + k),
            !.age = F32OfInt(s.total_updates + k),
            !.last_reinforcement_age = F32OfInt(s.total_updates + k),
            !.total_updates = s.total_updates + k,
            !.total_reinforcements = s.total_reinforcements + k]

\* the update with call c changes nothing of s but the counts, and the
\* weight and the age of s are its update count
AtFixedPoint(s, c) ==
  /\ c[2] = F32One
  /\ s.slots[1].weight = F32OfInt(s.total_updates)
  /\ s.age = F32OfInt(s.total_updates)
  /\ cr_state_update(Ptr(s), Ptr(c[1]), s.rt.dim, c[2]).st[1] = Ahead(s, 1)

Soak ==
  /\ host = "soak" /\ Alive
  /\ st[1].total_updates = MaxRepeat
  /\ \E c \in SoakCalls :
       /\ AtFixedPoint(st[1], c)
       /\ st' = Ptr(Ahead(st[1], SoakUpdates - st[1].total_updates))
       /\ last' = Called("update", <<TRUE, Ptr(c[1]), st[1].rt.dim, c[2]>>, 0, NULL)
  /\ UNCHANGED <<cfg, rt, host, fs, shared>>

NextSoak == Update \/ Query \/ Soak

SpecSoak == InitSoak /\ [][NextSoak]_vars

\* the host has a call left to make, and the soaking host its long run
CanUpdate == Alive /\ InRange(st[1]) /\ HostCalls # {}
CanSoak ==
  /\ host = "soak" /\ Alive
  /\ st[1].total_updates = MaxRepeat
  /\ \E c \in SoakCalls : AtFixedPoint(st[1], c)

\* the same hosts, never stopping while a call of theirs is left to make:
\* weak fairness of Update and of Soak, WF_vars(A) written as
\* []<>(~ENABLED <<A>>_vars) \/ []<><<A>>_vars with the action's guard for
\* its ENABLED (every update and every long run changes total_updates)
SpecSoakFair ==
  /\ SpecSoak
  /\ []<>(~CanUpdate) \/ []<><<Update>>_vars
  /\ []<>(~CanSoak) \/ []<><<Soak>>_vars

(***************************************************************************)
(* Properties                                                              *)
(***************************************************************************)
\* the range invariants of the data model
PlasticityInRange(s) == F32Ge(s.plasticity, CR_EPSILON) /\ F32Le(s.plasticity, F32One)
StoreInvariants(s) ==
  /\ PlasticityInRange(s)
  /\ InRange(s)
  /\ s.total_reinforcements <= s.total_updates

\* C1: in every state reached from cr_state_create by updates (accepted or
\* rejected), queries and resets, 0.05 <= plasticity <= 1.0
C1_PlasticityBounds == Alive => PlasticityInRange(st[1])

\* the floor has been reached and the clamp has held the plasticity there
C1_Witness ==
  /\ last.op = "update" /\ last.ret = 0
  /\ st[1].plasticity = CR_EPSILON
  /\ st[1].plasticity_prev = CR_EPSILON

\* C2: after every call 0 <= slot_count <= max_slots, and once
\* slot_count = max_slots no update increases it
C2_BoundedOccupancy ==
  [][Alive =>
       /\ InRange(st'[1])
       /\ (last'.op = "update" /\ st[1].slot_count = st[1].rt.max_slots)
            => st'[1].slot_count = st[1].slot_count]_vars

\* a full store has discarded an observation
C2_Witness ==
  /\ last.op = "update" /\ last.ret = 0
  /\ st[1].slot_count = st[1].rt.max_slots
  /\ st[1].total_updates > st[1].slot_count + st[1].total_reinforcements

\* the arguments (store given, embedding, dim, delta_t) break a precondition
\* of cr_state_update on store stp
BreaksUpdatePrecondition(a, stp) ==
  \/ ~a[1]
  \/ a[2] = NULL
  \/ a[3] # stp[1].rt.dim
  \/ F32Le(a[4], F32Zero(0))

\* C3: an update called with a null store or embedding, another dim, or
\* delta_t <= 0 returns -1 and leaves every field of the store unchanged
C3_RejectedUpdateNoOp ==
  [][(last'.op = "update" /\ BreaksUpdatePrecondition(last'.arg, st))
       => (last'.ret = 0 - 1 /\ st' = st)]_vars

\* a store holding slots has rejected an update for its delta_t
C3_Witness ==
  /\ last.op = "update" /\ last.ret = 0 - 1
  /\ last.arg[1] /\ last.arg[2] # NULL /\ last.arg[3] = st[1].rt.dim
  /\ F32Le(last.arg[4], F32Zero(0))
  /\ st[1].slot_count > 0 /\ st[1].total_reinforcements > 0

\* the query last made, made again on store stp
QueryAgain(a, stp) == cr_state_query(IF a[1] THEN stp ELSE NULL, a[2], a[3], a[4])

\* the call returned what the last call returned
SameAnswer(r, l) == r.ret = l.ret /\ r.out = l.out

\* C4: a query, accepted or rejected, leaves every field of the store
\* unchanged, and the same query made again returns the same hint
C4_QueryNoSideEffects ==
  [][last'.op = "query"
       => (st' = st /\ SameAnswer(QueryAgain(last'.arg, st'), last'))]_vars

\* a query has matched a slot of a store that has reinforced
C4_Witness ==
  /\ last.op = "query" /\ last.ret = 0
  /\ last.out[1].vector # 0
  /\ F32Gt(last.out[1].confidence, F32Zero(0))
  /\ st[1].total_reinforcements > 0

\* C10: every successful query returns 0 <= confidence < 1
C10_ConfidenceRange ==
  (last.op = "query" /\ last.ret = 0)
    => /\ F32Ge(last.out[1].confidence, F32Zero(0))
       /\ F32Lt(last.out[1].confidence, F32One)

\* the step is the call of cr_state_load
IsLoad == host = "persist" /\ host' = "loaded"

SameScalars(a, b) ==
  /\ a.slot_count = b.slot_count
  /\ a.plasticity = b.plasticity
  /\ a.age = b.age
  /\ a.plasticity_prev = b.plasticity_prev
  /\ a.velocity = b.velocity
  /\ a.last_reinforcement_age = b.last_reinforcement_age
  /\ a.total_updates = b.total_updates
  /\ a.total_reinforcements = b.total_reinforcements

SameConfidence(a, b) ==
  \A q \in Queries :
    cr_state_query(Ptr(a), Ptr(q), a.rt.dim, Ptr(NoHint)).out[1].confidence
      = cr_state_query(Ptr(b), Ptr(q), b.rt.dim, Ptr(NoHint)).out[1].confidence

HeaderMismatch(w, s) ==
  \/ w[1] # CR_MAGIC
  \/ w[2] # 1
  \/ w[3] # s.rt.dim
  \/ w[4] # s.rt.max_slots

\* C7: a load of a file whose magic, version, dim or max_slots does not
\* match returns failure and leaves the store exactly as it was
C7_FormatIncompatibility ==
  [][(IsLoad /\ fs # NULL /\ Len(fs[1].words) >= 4 /\ HeaderMismatch(fs[1].words, st[1]))
       => (last'.op = "load" /\ last'.ret = 0 - 1 /\ st' = st)]_vars

\* a store other than the saved one has refused a file with a foreign header
C7_Witness ==
  /\ last.op = "load" /\ last.ret = 0 - 1 /\ host = "loaded"
  /\ fs # NULL /\ Len(fs[1].words) >= 12
  /\ HeaderMismatch(fs[1].words, st[1])
  /\ st[1].slot_count > 0
  /\ ~SameScalars(st[1], fs[1].saved)

\* the scalar section of w carries a slot_count or a plasticity out of range
BadScalars(w, s) ==
  /\ Len(w) >= 6
  /\ \/ w[5] < 0 \/ w[5] > s.rt.max_slots
     \/ ~F32Ge(F32FromBits(w[6]), CR_EPSILON)
     \/ ~F32Le(F32FromBits(w[6]), F32One)

\* C8: after a successful load of a file with a matching header the store
\* invariants hold, whatever the file holds; a slot_count or plasticity out
\* of range is never applied to the store
C8_InvariantsAcrossLoad ==
  [][(IsLoad /\ fs # NULL /\ Len(fs[1].words) >= 4 /\ ~HeaderMismatch(fs[1].words, st[1]))
       => /\ (last'.op = "load" /\ last'.ret = 0) => StoreInvariants(st'[1])
          /\ BadScalars(fs[1].words, st[1])
               => (st' # NULL /\ st'[1].slot_count = st[1].slot_count
                              /\ st'[1].plasticity = st[1].plasticity)]_vars

\* C9: a load that fails after the header was accepted, on a file that is a
\* prefix of a saved one, leaves the store invariants in place and the age
\* not lower than before the call
C9_FailedLoadKeepsInvariants ==
  [][(/\ IsLoad /\ fs # NULL /\ fs[1].damage = "cut"
      /\ Len(fs[1].words) >= 4 /\ ~HeaderMismatch(fs[1].words, st[1])
      /\ last'.op = "load" /\ last'.ret = 0 - 1)
       => (StoreInvariants(st'[1]) /\ F32Ge(st'[1].age, st[1].age))]_vars

\* the arguments (store given, query, dim, out) satisfy the preconditions of
\* cr_state_query on store s
QueryAccepted(a, s) == a[1] /\ a[2] # NULL /\ a[4] # NULL /\ a[3] = s.rt.dim

\* no occupied slot of s has a cosine similarity above 0 with q
NoMatch(s, q) ==
  \A i \in 1..s.slot_count :
    ~F32Gt(cr_cosine_similarity(q, s.slots[i].vector, s.rt.dim), F32Zero(0))

\* C11: a valid query on a store with no occupied slot, or with no occupied
\* slot of cosine similarity > 0 with the query, returns 0 and writes the
\* hint vector = NULL, dim = 0, confidence = 0.0
C11_NoMatchQuery ==
  (/\ Alive /\ last.op = "query"
   /\ QueryAccepted(last.arg, st[1])
   /\ NoMatch(st[1], last.arg[2][1]))
    => /\ last.ret = 0
       /\ last.out = Ptr([vector |-> 0, dim |-> 0, confidence |-> F32Zero(0)])

\* a store holding a slot has been queried with a vector orthogonal to it,
\* and the stale hint of the caller has been overwritten
C11_Witness ==
  /\ Alive /\ last.op = "query" /\ last.ret = 0
  /\ st[1].slot_count > 0
  /\ NoMatch(st[1], last.arg[2][1])
  /\ last.arg[4] = Ptr(StaleHint)
  /\ last.out[1].dim = 0

\* the cosine similarity of q with slot i of s
SimOf(s, q, i) == cr_cosine_similarity(q, s.slots[i].vector, s.rt.dim)

\* best_sim * (1 - plasticity) * (weight / (weight + 1)) for slot i of s
DerivedConfidence(s, q, i) ==
  F32Mul(F32Mul(SimOf(s, q, i), F32Sub(F32One, s.plasticity)),
         F32Div(s.slots[i].weight, F32Add(s.slots[i].weight, F32One)))

\* C12: a valid query that some occupied slot matches with similarity > 0
\* returns 0 with a hint whose vector refers to an occupied slot of greatest
\* similarity, whose dim is the configured dimension and whose confidence is
\* best_sim * (1 - plasticity) * (weight / (weight + 1)) of that slot
C12_ConfidenceDerivation ==
  (/\ Alive /\ last.op = "query"
   /\ QueryAccepted(last.arg, st[1])
   /\ ~NoMatch(st[1], last.arg[2][1]))
    => /\ last.ret = 0
       /\ last.out[1].vector \in 1..st[1].slot_count
       /\ \A i \in 1..st[1].slot_count :
            F32Ge(SimOf(st[1], last.arg[2][1], last.out[1].vector),
                  SimOf(st[1], last.arg[2][1], i))
       /\ last.out[1].dim = cfg[1].embedding_dim
       /\ last.out[1].confidence =
            DerivedConfidence(st[1], last.arg[2][1], last.out[1].vector)

\* a query has matched the second of two slots, one that was reinforced while
\* the plasticity was below 1, at a similarity below 1
C12_Witness ==
  /\ Alive /\ last.op = "query" /\ last.ret = 0
  /\ last.out[1].vector = 2
  /\ F32Gt(st[1].slots[2].weight, F32One)
  /\ F32Lt(st[1].plasticity, F32One)
  /\ F32Lt(SimOf(st[1], last.arg[2][1], 2), F32One)
  /\ F32Gt(last.out[1].confidence, F32Zero(0))

\* no occupied slot of s has a similarity above the threshold with v
NoSlotAbove(s, v) ==
  \A i \in 1..s.slot_count : ~F32Gt(SimOf(s, v, i), CR_SIM_THRESHOLD)

\* plasticity p times the recovery rate, held at 1.0
Recovered(p) ==
  IF F32Gt(F32Mul(p, CR_RECOVERY_RATE), F32One) THEN F32One
  ELSE F32Mul(p, CR_RECOVERY_RATE)

\* C13: a valid update of a full store that no occupied slot matches above
\* the threshold returns 0, leaves slot_count, every slot,
\* total_reinforcements and last_reinforcement_age unchanged, multiplies the
\* plasticity by the recovery rate (held at 1.0), adds delta_t to age, adds 1
\* to total_updates and sets velocity to (plasticity before - after) / delta_t
C13_FullStoreDiscard ==
  [][(/\ Alive /\ last'.op = "update"
      /\ ~BreaksUpdatePrecondition(last'.arg, st)
      /\ st[1].slot_count = st[1].rt.max_slots
      /\ NoSlotAbove(st[1], last'.arg[2][1]))
       => /\ last'.ret = 0
          /\ st'[1].slot_count = st[1].slot_count
          /\ st'[1].slots = st[1].slots
          /\ st'[1].total_reinforcements = st[1].total_reinforcements
          /\ st'[1].last_reinforcement_age = st[1].last_reinforcement_age
          /\ st'[1].plasticity = Recovered(st[1].plasticity)
          /\ st'[1].age = F32Add(st[1].age, last'.arg[4])
          /\ st'[1].total_updates = st[1].total_updates + 1
          /\ st'[1].velocity =
               F32Div(F32Sub(st[1].plasticity, st'[1].plasticity), last'.arg[4])]_vars

\* the last update of a full store was neither a reinforcement nor a
\* creation, and it raised a plasticity that was below 1.0
C13_Witness ==
  /\ Alive /\ last.op = "update" /\ last.ret = 0
  /\ st[1].slot_count = st[1].rt.max_slots
  /\ st[1].total_updates > st[1].slot_count + st[1].total_reinforcements
  /\ F32Lt(st[1].plasticity_prev, st[1].plasticity)
  /\ F32Lt(st[1].plasticity, F32One)
  /\ F32Lt(st[1].last_reinforcement_age, st[1].age)

\* C14: every successful update leaves age equal to the age before it plus
\* delta_t, and strictly greater than the age before it
C14_StrictlyMonotonicAge ==
  [][(Alive /\ last'.op = "update" /\ last'.ret = 0)
       => /\ st'[1].age = F32Add(st[1].age, last'.arg[4])
          /\ F32Gt(st'[1].age, st[1].age)]_vars

\* the operations that leave the content of the store to the caller's inputs
\* alone: all but reset and load
KeepingOps == {"update", "query", "plasticity", "temporal", "calibration", "save"}

C16_SlotCountMonotonicButReset ==
  [][(Alive /\ st' # NULL /\ last'.op # "reset")
       => st'[1].slot_count >= st[1].slot_count]_vars

\* C16, amended: update, query, introspection and save leave slot_count at
\* or above its value before the operation
C16_SlotCountKeptOutsideResetAndLoad ==
  [][(Alive /\ st' # NULL /\ last'.op \in KeepingOps /\ ~IsLoad)
       => st'[1].slot_count >= st[1].slot_count]_vars

\* a full store that has discarded an observation was saved
C16_Witness ==
  /\ Alive /\ last.op = "save" /\ last.ret = 0
  /\ st[1].slot_count = st[1].rt.max_slots
  /\ st[1].total_updates > st[1].slot_count + st[1].total_reinforcements

\* the store has been through updates, resets and loads of intact files only
RoundTripsOnly == host = "loaded" => (fs = NULL \/ fs[1].damage = "none")

\* the step is a call of cr_state_update
IsUpdate == last'.op = "update" /\ fs' = fs

\* C17: in every state reached by updates, resets and save/load round trips
\* 0 <= total_reinforcements <= total_updates; an accepted update adds 1 to
\* total_updates and a rejected one 0; an update that reinforces adds 1 to
\* total_reinforcements and any other update 0
C17_CounterRelation ==
  [][(Alive /\ st' # NULL /\ RoundTripsOnly')
       => /\ 0 <= st'[1].total_reinforcements
          /\ st'[1].total_reinforcements <= st'[1].total_updates
          /\ IsUpdate =>
               /\ st'[1].total_updates =
                    st[1].total_updates + (IF last'.ret = 0 THEN 1 ELSE 0)
               /\ st'[1].total_reinforcements =
                    st[1].total_reinforcements
                    + (IF last'.ret = 0 /\ ~NoSlotAbove(st[1], last'.arg[2][1])
                       THEN 1 ELSE 0)]_vars

\* a store loaded from an intact file has reinforced a slot that came from
\* the file
C17_Witness ==
  /\ Alive /\ host = "loaded" /\ fs # NULL /\ fs[1].damage = "none"
  /\ last.op = "update" /\ last.ret = 0
  /\ st[1].total_reinforcements = fs[1].saved.total_reinforcements + 1
  /\ st[1].total_updates = fs[1].saved.total_updates + 1
  /\ st[1].last_reinforcement_age = st[1].age

\* the step is a call of cr_state_reset
IsReset == last'.op = "reset" /\ fs' = fs /\ host' = host

\* C18: after a reset of any reachable store the store equals a store freshly
\* created on the same runtime: plasticity and plasticity_prev at the value a
\* fresh store has, velocity, age and last_reinforcement_age 0, slot_count
\* and both counters 0, every weight 0 and every vector as allocated
C18_ResetIsFresh ==
  [][(Alive /\ IsReset)
       => /\ st' = cr_state_create(rt)
          /\ st'[1].plasticity = cr_state_create(rt)[1].plasticity
          /\ st'[1].plasticity_prev = cr_state_create(rt)[1].plasticity_prev
          /\ st'[1].velocity = F32Zero(0)
          /\ st'[1].age = F32Zero(0)
          /\ st'[1].last_reinforcement_age = F32Zero(0)
          /\ st'[1].slot_count = 0
          /\ st'[1].total_updates = 0
          /\ st'[1].total_reinforcements = 0
          /\ \A i \in 1..rt[1].max_slots : st'[1].slots[i].weight = F32Zero(0)]_vars

\* a store that loaded slots from an intact file and went on has been reset
C18_Witness ==
  /\ Alive /\ last.op = "reset"
  /\ host = "loaded" /\ fs # NULL /\ fs[1].damage = "none"
  /\ fs[1].saved.slot_count = fs[1].saved.rt.max_slots
  /\ fs[1].saved.total_reinforcements > 0
  /\ st[1].slot_count = 0

\* C19: cr_runtime_create fails exactly when the configuration is null or
\* its embedding_dim or max_memory_slots is not positive, and a successful
\* cr_runtime_config returns embedding_dim, max_memory_slots and
\* initial_plasticity as they were passed to cr_runtime_create
C19_ConfigReadBack ==
  /\ rt = NULL <=>
       (cfg = NULL \/ cfg[1].embedding_dim <= 0 \/ cfg[1].max_memory_slots <= 0)
  /\ (last.op = "config" /\ last.ret = 0)
       => /\ last.out[1].embedding_dim = cfg[1].embedding_dim
          /\ last.out[1].max_memory_slots = cfg[1].max_memory_slots
          /\ last.out[1].initial_plasticity = cfg[1].initial_plasticity

\* C20: a store created or reset under a configuration whose
\* initial_plasticity p0 lies in [0.05, 1.0] has plasticity = p0 and
\* plasticity_prev = p0
C20_ConfiguredInitialPlasticity ==
  (/\ Alive /\ last.op \in {"create", "reset"}
   /\ F32Ge(cfg[1].initial_plasticity, CR_EPSILON)
   /\ F32Le(cfg[1].initial_plasticity, F32One))
    => /\ st[1].plasticity = cfg[1].initial_plasticity
       /\ st[1].plasticity_prev = cfg[1].initial_plasticity

\* the calibration signal as derived from a temporal record t alone
CalibrationOf(t) ==
  [age |-> t.age,
   plasticity |-> t.plasticity,
   velocity |-> t.velocity,
   maturity |-> t.maturity,
   reinforcement_ratio |->
     IF t.total_updates > 0
     THEN F32Div(F32OfInt(t.total_reinforcements), F32OfInt(t.total_updates))
     ELSE F32Zero(0)]

\* stores with the scalars of s and other slot contents
SlotVariants(s) ==
  {[s EXCEPT !.slots = [i \in DOMAIN s.slots |-> [vector |-> v, weight |-> w]]] :
     v \in {VecZero, VecDiag}, w \in {F32Zero(0), F32Two}}

\* C21: the signal cr_state_calibration returns is the one derived from the
\* record cr_state_temporal returns for the same store (age, plasticity,
\* velocity, maturity equal; reinforcement_ratio = total_reinforcements /
\* total_updates, 0 when total_updates = 0), and a store with the same
\* scalars and other slot vectors and weights returns the same signal
C21_CalibrationNonLeakage ==
  (Alive /\ last.op = "calibration" /\ last.ret = 0)
    => /\ last.out[1] = CalibrationOf(cr_state_temporal(st, Ptr(0)).out[1])
       /\ \A alt \in SlotVariants(st[1]) :
            cr_state_calibration(Ptr(alt), Ptr(0)).out = last.out

\* the signal of a store that holds slots and has reinforced on some updates
\* and not on others
C21_Witness ==
  /\ Alive /\ last.op = "calibration" /\ last.ret = 0
  /\ st[1].slot_count > 0
  /\ st[1].total_reinforcements > 0
  /\ st[1].total_reinforcements < st[1].total_updates
  /\ F32Gt(last.out[1].reinforcement_ratio, F32Zero(0))
  /\ F32Gt(last.out[1].maturity, F32Zero(0))

\* the step is a call of an introspection accessor
IsIntrospect == last'.op \in {"plasticity", "temporal", "calibration"} /\ fs' = fs

\* C22: cr_state_plasticity, cr_state_temporal and cr_state_calibration fail
\* exactly when the store or the output argument is null, leave every field
\* of the store unchanged, and return stability = 1 - plasticity, maturity =
\* age * (1 - plasticity) and time_since_reinforcement = age -
\* last_reinforcement_age of the store as it is at the call
C22_IntrospectionPureReads ==
  [][(Alive /\ IsIntrospect)
       => /\ st' = st
          /\ last'.ret = (IF last'.arg[1] /\ last'.arg[2] # NULL THEN 0 ELSE 0 - 1)
          /\ (last'.ret = 0 /\ last'.op = "plasticity")
               => /\ last'.out[1].plasticity = st[1].plasticity
                  /\ last'.out[1].age = st[1].age
                  /\ last'.out[1].stability = F32Sub(F32One, st[1].plasticity)
          /\ (last'.ret = 0 /\ last'.op = "temporal")
               => /\ last'.out[1].maturity =
                       F32Mul(st[1].age, F32Sub(F32One, st[1].plasticity))
                  /\ last'.out[1].time_since_reinforcement =
                       F32Sub(st[1].age, st[1].last_reinforcement_age)
                  /\ last'.out[1].age = st[1].age
                  /\ last'.out[1].plasticity = st[1].plasticity
                  /\ last'.out[1].velocity = st[1].velocity
                  /\ last'.out[1].last_reinforcement_age = st[1].last_reinforcement_age
                  /\ last'.out[1].total_updates = st[1].total_updates
                  /\ last'.out[1].total_reinforcements = st[1].total_reinforcements
          /\ (last'.ret = 0 /\ last'.op = "calibration")
               => last'.out[1].maturity =
                    F32Mul(st[1].age, F32Sub(F32One, st[1].plasticity))
          /\ last'.ret # 0 => last'.out = last'.arg[2]]_vars

\* the temporal record of a store that reinforced and then saw something new
C22_Witness ==
  /\ Alive /\ last.op = "temporal" /\ last.ret = 0
  /\ F32Gt(last.out[1].time_since_reinforcement, F32Zero(0))
  /\ F32Gt(last.out[1].last_reinforcement_age, F32Zero(0))
  /\ F32Gt(last.out[1].maturity, F32Zero(0))
  /\ last.out[1].total_reinforcements > 0

\* the step is a call of cr_state_save
IsSave == last'.op = "save" /\ fs = NULL /\ host' = host

\* word k of the record of slot i in a file w of a store s
SlotWordAt(w, s, i, k) == w[12 + (i - 1) * (s.rt.dim + 1) + k]

WordBytes == 4

Sims(s, v) == [i \in 1..s.slot_count |-> SimOf(s, v, i)]

\* i is the lowest index of the greatest of the similarities, and that one
\* is above 0
IsBest(sims, i) ==
  /\ F32Gt(sims[i], F32Zero(0))
  /\ \A j \in DOMAIN sims : F32Ge(sims[i], sims[j])
  /\ \A j \in 1..(i - 1) : F32Lt(sims[j], sims[i])

\* the slot selected among the similarities, 0 for none
BestOf(sims) ==
  IF \E i \in DOMAIN sims : IsBest(sims, i)
  THEN CHOOSE i \in DOMAIN sims : IsBest(sims, i)
  ELSE 0

\* the update of s into t has reinforced slot b and no other, and a query
\* with the arguments a of the update returns slot b on s
ReinforcedAsQueried(s, t, a, b) ==
  /\ b # 0
  /\ cr_state_query(Ptr(s), a[2], a[3], Ptr(StaleHint)).out[1].vector = b
  /\ t.slots[b].weight = F32Add(s.slots[b].weight, F32One)
  /\ \A j \in 1..s.rt.max_slots : j # b => t.slots[j] = s.slots[j]

\* C25: a valid query returns the lowest-index occupied slot of greatest
\* cosine similarity with the vector when that similarity is above 0 and no
\* slot otherwise, and a valid update that reinforces changes that same slot,
\* the one a query with the embedding returns on the store before the update
C25_BestMatchSelection ==
  [][Alive =>
       /\ (last'.op = "query" /\ QueryAccepted(last'.arg, st[1]))
            => \A sims \in {Sims(st[1], last'.arg[2][1])} :
                 last'.out[1].vector = BestOf(sims)
       /\ (/\ IsUpdate /\ last'.ret = 0
           /\ st'[1].total_reinforcements = st[1].total_reinforcements + 1)
            => \A sims \in {Sims(st[1], last'.arg[2][1])} :
                 \A b \in {BestOf(sims)} :
                   ReinforcedAsQueried(st[1], st'[1], last'.arg, b)]_vars

\* a query equally similar to two slots has been answered with the first
C25_Witness ==
  /\ Alive /\ last.op = "query" /\ last.ret = 0
  /\ st[1].slot_count = 2
  /\ SimOf(st[1], last.arg[2][1], 1) = SimOf(st[1], last.arg[2][1], 2)
  /\ F32Gt(SimOf(st[1], last.arg[2][1], 1), F32Zero(0))
  /\ last.out[1].vector = 1

\* slot b of s after an update with embedding e: each component the old one
\* times (1 - p) plus the embedding's times p, p the plasticity of s
Interpolated(s, e, b) ==
  [vector |-> [i \in 1..s.rt.dim |->
                 F32Add(F32Mul(s.slots[b].vector[i], F32Sub(F32One, s.plasticity)),
                        F32Mul(e[i], s.plasticity))],
   weight |-> F32Add(s.slots[b].weight, F32One)]

\* the update of s into t with embedding e and interval dt reinforced slot b
\* and nothing else
ReinforcedOnly(s, t, e, dt, b) ==
  /\ t.slots[b] = Interpolated(s, e, b)
  /\ \A j \in 1..s.rt.max_slots : j # b => t.slots[j] = s.slots[j]
  /\ t.slot_count = s.slot_count
  /\ t.total_reinforcements = s.total_reinforcements + 1
  /\ t.last_reinforcement_age = F32Add(s.age, dt)
  /\ t.last_reinforcement_age = t.age

\* the update of s into t did not reinforce
NotReinforced(s, t) ==
  /\ t.total_reinforcements = s.total_reinforcements
  /\ t.last_reinforcement_age = s.last_reinforcement_age
  /\ \A j \in 1..s.slot_count : t.slots[j] = s.slots[j]

\* C26: a valid update whose best slot has a similarity above the threshold
\* sets that slot's vector to old * (1 - p) + embedding * p with p the
\* plasticity before the update and adds 1 to its weight, leaves every other
\* slot and slot_count unchanged, adds 1 to total_reinforcements and sets
\* last_reinforcement_age to the age after the update; with a best
\* similarity equal to the threshold or below it does not reinforce
C26_ReinforcementStep ==
  [][(Alive /\ IsUpdate /\ last'.ret = 0)
       => \A sims \in {Sims(st[1], last'.arg[2][1])} :
            \A b \in {BestOf(sims)} :
              IF b # 0 /\ F32Gt(sims[b], CR_SIM_THRESHOLD)
              THEN ReinforcedOnly(st[1], st'[1], last'.arg[2][1], last'.arg[4], b)
              ELSE NotReinforced(st[1], st'[1])]_vars

\* a slot reinforced at a plasticity below 1 by a vector other than its own,
\* in a store that has a free slot left
C26_Witness ==
  /\ Alive /\ last.op = "update" /\ last.ret = 0
  /\ st[1].last_reinforcement_age = st[1].age
  /\ st[1].slot_count = 1 /\ st[1].rt.max_slots = 2
  /\ st[1].slots[1].weight = F32(0, 0 - 22, 3 * 2^22)
  /\ F32Gt(st[1].slots[1].vector[2], F32Zero(0))
  /\ F32Lt(st[1].slots[1].vector[2], F32Half)
  /\ F32Lt(st[1].plasticity_prev, F32One)

\* the update of s into t with embedding e created the next slot
CreatedOnly(s, t, e) ==
  /\ t.slot_count = s.slot_count + 1
  /\ t.slots[s.slot_count + 1].vector = e
  /\ t.slots[s.slot_count + 1].weight = F32One
  /\ \A j \in 1..s.rt.max_slots : j # s.slot_count + 1 => t.slots[j] = s.slots[j]
  /\ t.total_reinforcements = s.total_reinforcements
  /\ t.last_reinforcement_age = s.last_reinforcement_age

\* C27: a valid update of a store with a free slot that no occupied slot
\* matches above the threshold copies the embedding unchanged into the first
\* free slot, sets that slot's weight to 1.0, adds 1 to slot_count and leaves
\* the occupied slots, total_reinforcements and last_reinforcement_age
\* unchanged
C27_CreationStep ==
  [][(/\ Alive /\ IsUpdate /\ last'.ret = 0
      /\ st[1].slot_count < st[1].rt.max_slots
      /\ NoSlotAbove(st[1], last'.arg[2][1]))
       => CreatedOnly(st[1], st'[1], last'.arg[2][1])]_vars

\* an embedding whose similarity with the only slot is the threshold exactly
\* has been stored as the second slot
C27_Witness ==
  /\ Alive /\ last.op = "update" /\ last.ret = 0
  /\ last.arg[2] = Ptr(VecAtThreshold)
  /\ st[1].slot_count = 2
  /\ st[1].slots[1].vector = VecE1
  /\ st[1].slots[2] = [vector |-> VecAtThreshold, weight |-> F32One]
  /\ SimOf(st[1], VecAtThreshold, 1) = CR_SIM_THRESHOLD
  /\ st[1].total_reinforcements = 0

\* x held in [CR_EPSILON, 1.0]
Clamped(x) ==
  IF F32Lt(x, CR_EPSILON) THEN CR_EPSILON
  ELSE IF F32Gt(x, F32One) THEN F32One
  ELSE x

\* C28: on every successful update plasticity_prev becomes the plasticity
\* before the update, plasticity becomes that value times the decay rate if
\* the update reinforced and times the recovery rate otherwise, held in
\* [CR_EPSILON, 1.0], and velocity becomes (plasticity_prev - plasticity) /
\* delta_t with the plasticity as held
C28_PlasticityAndVelocity ==
  [][(Alive /\ IsUpdate /\ last'.ret = 0)
       => /\ st'[1].plasticity_prev = st[1].plasticity
          /\ st'[1].plasticity =
               Clamped(F32Mul(st[1].plasticity,
                 IF st'[1].total_reinforcements = st[1].total_reinforcements + 1
                 THEN CR_DECAY_RATE ELSE CR_RECOVERY_RATE))
          /\ st'[1].velocity =
               F32Div(F32Sub(st'[1].plasticity_prev, st'[1].plasticity), last'.arg[4])]_vars

\* a reinforcement has taken the plasticity down to the floor, where the
\* clamp caught it
C28_Witness ==
  /\ Alive /\ last.op = "update" /\ last.ret = 0
  /\ st[1].plasticity = CR_EPSILON
  /\ F32Gt(st[1].plasticity_prev, CR_EPSILON)
  /\ F32Lt(F32Mul(st[1].plasticity_prev, CR_DECAY_RATE), CR_EPSILON)
  /\ F32Gt(st[1].velocity, F32Zero(0))

\* C29: in every reachable state, also after a load into a store that held
\* more slots and after a load that failed partway through a truncated file,
\* every slot at or past slot_count has weight 0 and every slot before it a
\* weight of at least 1
C29_OccupiedPrefix ==
  (Alive /\ (fs = NULL \/ fs[1].damage # "word"))
    => \A i \in 1..st[1].rt.max_slots :
         IF i <= st[1].slot_count
         THEN F32Ge(st[1].slots[i].weight, F32One)
         ELSE st[1].slots[i].weight = F32Zero(0)

\* the store a step acted on: the first argument of the call last records
ActedOn(i) == last'.arg # << >> /\ last'.arg[1] = i

\* C24: with two stores made from one runtime, a call on one store leaves
\* every field of the other store and the runtime's dim and max_slots as
\* they were, and after any interleaving of calls each store is what its own
\* calls alone, in the same order, make of it
C24_StoresIndependent ==
  [][host = "shared" =>
       \A i \in 1..Len(stores) :
         /\ ActedOn(i) =>
              \A j \in 1..Len(stores) \ {i} :
                StoreAt(heap', stores[j]) = StoreAt(heap, stores[j])
         /\ StoreAt(heap', stores[i]) = alone'[i]
         /\ heap'[RuntimeAt] = rt[1]
         /\ heap'[RuntimeAt].dim = cfg[1].embedding_dim
         /\ heap'[RuntimeAt].max_slots = cfg[1].max_memory_slots]_vars

\* both stores hold a slot, of different vectors, the first store just
\* updated for the second time
C24_Witness ==
  /\ host = "shared"
  /\ last.op = "update" /\ last.arg[1] = 1
  /\ alone[1].total_updates = 2 /\ alone[1].total_reinforcements = 1
  /\ alone[2].total_updates = 1 /\ alone[2].slot_count = 1
  /\ StoreAt(heap, stores[2]).slots[1].weight = F32One
  /\ StoreAt(heap, stores[1]).slots[1].vector # StoreAt(heap, stores[2]).slots[1].vector

\* the update of s into t reinforced
Reinforcing(s, t) == t.total_reinforcements = s.total_reinforcements + 1

\* the slot the update of s into t reinforced: the one whose weight changed
MatchedSlots(s, t) == {b \in 1..s.slot_count : t.slots[b].weight # s.slots[b].weight}

HintOn(s, v) == cr_state_query(Ptr(s), Ptr(v), Dim, Ptr(StaleHint)).out[1]

\* the store the update u leaves when nothing runs between its statements
PostOf(u) == cr_state_update(Ptr(u.pre), Ptr(u.e), Dim, u.dt).st[1]

\* C32: the store has no synchronization of its own.  With a mutex around
\* every call no query runs while an update is between two statements, and
\* every query returns what it returns on the store as the last call left
\* it, the state before the next update and after the previous one; an
\* update whose statements run to the end leaves what cr_state_update
\* leaves.  (Without the mutex a query can return a hint that it returns
\* neither on the store before the update it overlapped nor on the store
\* after it: the witness.)
C32_MutexSerialisesQueries ==
  [][host = "threads" =>
       /\ threads'.lock =>
            /\ ~(threads'.upd.pc # "idle" /\ threads'.qry.pc \in {"scan", "derive"})
            /\ threads'.qry.pc = "done" => threads'.qry.overlapped = {}
       /\ (threads'.qry.pc = "done" /\ threads'.qry.overlapped = {})
            => threads'.qry.out = HintOn(threads'.qry.began, threads'.qry.v)
       /\ (threads.upd.pc = "velocity" /\ threads'.upd.pc = "idle")
            => st'[1] = PostOf(threads.upd)]_vars

\* without the mutex, a query that overlapped one update has returned a
\* slot with a confidence that it returns neither before nor after that
\* update
C32_Witness ==
  /\ host = "threads" /\ ~threads.lock
  /\ threads.qry.pc = "done"
  /\ Cardinality(threads.qry.overlapped) = 1
  /\ threads.qry.out.vector # 0
  /\ \A u \in threads.qry.overlapped :
       /\ threads.qry.out # HintOn(u.pre, threads.qry.v)
       /\ threads.qry.out # HintOn(PostOf(u), threads.qry.v)
       /\ threads.qry.out.confidence # HintOn(u.pre, threads.qry.v).confidence
       /\ threads.qry.out.confidence # HintOn(PostOf(u), threads.qry.v).confidence

WholeOf(f) == IF f.e >= 0 THEN f.m * 2^f.e ELSE f.m \div 2^(0 - f.e)

RECURSIVE WeightSum(_, _)
\* the sum of the weights of the first n slots of s
WeightSum(s, n) == IF n = 0 THEN 0 ELSE WeightSum(s, n - 1) + WholeOf(s.slots[n].weight)

\* the updates that neither reinforced nor created: total_updates less the
\* slots and the reinforcements
Unaccounted(s) == s.total_updates - (s.slot_count + s.total_reinforcements)

\* C34: in every state reached by updates, resets and save/load round trips
\* the weights of the occupied slots add up to slot_count +
\* total_reinforcements, and slot_count + total_reinforcements is at most
\* total_updates, the difference being 0 after a reset and growing by one
\* with each discarded observation and with nothing else
C34_WeightAccounting ==
  [][(Alive /\ st' # NULL /\ RoundTripsOnly' /\ InRange(st'[1]))
       => /\ WeightSum(st'[1], st'[1].slot_count)
               = st'[1].slot_count + st'[1].total_reinforcements
          /\ Unaccounted(st'[1]) >= 0
          /\ (IsUpdate /\ last'.ret = 0)
               => Unaccounted(st'[1]) = Unaccounted(st[1])
                    + (IF NoSlotAbove(st[1], last'.arg[2][1]) /\ ~HasRoom(st[1])
                       THEN 1 ELSE 0)
          /\ IsReset => Unaccounted(st'[1]) = 0]_vars

\* the time since the last reinforcement, as cr_state_temporal reports it
SinceReinforcement(s) == F32Sub(s.age, s.last_reinforcement_age)

\* C35: in every state reached by updates and resets 0 <=
\* last_reinforcement_age <= age, and last_reinforcement_age is 0 exactly
\* when total_reinforcements is 0; right after a reinforcing update the time
\* since reinforcement is 0, and every later update that does not reinforce
\* adds its delta_t to it
C35_ReinforcementLandmark ==
  [][(Alive /\ st' # NULL /\ fs' = NULL) =>
       /\ F32Le(F32Zero(0), st'[1].last_reinforcement_age)
       /\ F32Le(st'[1].last_reinforcement_age, st'[1].age)
       /\ F32Ge(SinceReinforcement(st'[1]), F32Zero(0))
       /\ F32Eq(st'[1].last_reinforcement_age, F32Zero(0))
            <=> st'[1].total_reinforcements = 0
       /\ (IsUpdate /\ last'.ret = 0 /\ Reinforcing(st[1], st'[1]))
            => F32Eq(SinceReinforcement(st'[1]), F32Zero(0))
       /\ (/\ IsUpdate /\ last'.ret = 0
           /\ ~Reinforcing(st[1], st'[1]) /\ st[1].total_reinforcements > 0)
            => SinceReinforcement(st'[1])
                 = F32Add(SinceReinforcement(st[1]), last'.arg[4])]_vars

\* the velocity after an update of s into t follows the branch: plasticity
\* down or level and velocity >= 0 after a reinforcement, level exactly when
\* atFloor; plasticity up or level and velocity <= 0 otherwise, level exactly
\* when atCeiling
VelocityFollows(s, t, atFloor, atCeiling) ==
  IF Reinforcing(s, t)
  THEN /\ F32Le(t.plasticity, t.plasticity_prev)
       /\ F32Ge(t.velocity, F32Zero(0))
       /\ F32Eq(t.velocity, F32Zero(0)) <=> atFloor
  ELSE /\ F32Ge(t.plasticity, t.plasticity_prev)
       /\ F32Le(t.velocity, F32Zero(0))
       /\ F32Eq(t.velocity, F32Zero(0)) <=> atCeiling

\* C36 as stated: after a reinforcing update plasticity <= plasticity_prev
\* and velocity >= 0, velocity being 0 exactly when the plasticity was at
\* the floor already; after any other update plasticity >= plasticity_prev
\* and velocity <= 0, velocity being 0 exactly when the recovery was clamped
\* at the ceiling 1.0
C36_VelocitySign ==
  [][(Alive /\ IsUpdate /\ last'.ret = 0)
       => VelocityFollows(st[1], st'[1],
            st[1].plasticity = CR_EPSILON,
            F32Gt(F32Mul(st[1].plasticity, CR_RECOVERY_RATE), F32One))]_vars

\* C36, amended: as stated, but after an update that does not reinforce the
\* velocity is 0 exactly when the plasticity was at the ceiling 1.0 already
C36_VelocitySignFromCeiling ==
  [][(Alive /\ IsUpdate /\ last'.ret = 0)
       => VelocityFollows(st[1], st'[1],
            st[1].plasticity = CR_EPSILON,
            st[1].plasticity = F32One)]_vars

\* an update that did not reinforce has taken the plasticity from below 1.0
\* to the ceiling, where the clamp caught it, at a velocity below 0
C36_Witness ==
  /\ Alive /\ last.op = "update" /\ last.ret = 0
  /\ st[1].plasticity = F32One
  /\ F32Lt(st[1].plasticity_prev, F32One)
  /\ F32Gt(F32Mul(st[1].plasticity_prev, CR_RECOVERY_RATE), F32One)
  /\ F32Lt(st[1].velocity, F32Zero(0))

\* every component of v is a zero
AllZero(v) == \A k \in DOMAIN v : F32Eq(v[k], F32Zero(0))

\* the occupied slots of s whose vector is all-zero
ZeroSlots(s) == {i \in 1..s.slot_count : AllZero(s.slots[i].vector)}

\* C37: an accepted update with the all-zero embedding never reinforces and
\* takes the next free slot whenever there is one; a slot whose vector is
\* all-zero has weight 1, no accepted query returns it, and no update
\* changes it: it stays occupied as it is until the store is reset
C37_ZeroVectorsConsumeCapacity ==
  [][(Alive /\ st' # NULL /\ fs' = NULL) =>
       /\ \A i \in ZeroSlots(st'[1]) : st'[1].slots[i].weight = F32One
       /\ (IsUpdate /\ last'.ret = 0)
            => /\ \A i \in ZeroSlots(st[1]) :
                    st'[1].slots[i] = st[1].slots[i] /\ i <= st'[1].slot_count
               /\ AllZero(last'.arg[2][1])
                    => /\ ~Reinforcing(st[1], st'[1])
                       /\ HasRoom(st[1])
                            => /\ st'[1].slot_count = st[1].slot_count + 1
                               /\ st'[1].slot_count \in ZeroSlots(st'[1])
       /\ (last'.op = "query" /\ last'.ret = 0)
            => last'.out[1].vector \notin ZeroSlots(st[1])]_vars

\* the first slot holds the all-zero vector with weight 1 while the second,
\* observed twice since, has been reinforced
C37_Witness ==
  /\ Alive /\ last.op = "update" /\ last.ret = 0
  /\ st[1].slot_count = 2 /\ st[1].total_updates = 3
  /\ ZeroSlots(st[1]) = {1}
  /\ st[1].slots[1].weight = F32One
  /\ st[1].slots[2].weight = F32Add(F32One, F32One)

\* the store is at the floor and level
Crystallized(s) == s.plasticity = CR_EPSILON /\ F32Eq(s.velocity, F32Zero(0))

\* C38: with the same non-zero vector fed to a fresh store in every update,
\* the first update creates slot 1 and every later one reinforces it (all
\* updates but one are reinforcements): slot_count stays 1, the weight of slot 1 is the number of updates, the
\* plasticity never rises, never falls below 0.05 and, once 0.05, stays 0.05
\* with velocity 0 after every further update; and eventually the plasticity
\* is 0.05 with velocity 0 for good
C38_Crystallization ==
  /\ [][(host \in {"soak", "faint"} /\ Alive /\ IsUpdate /\ last'.ret = 0)
          => /\ st'[1].slot_count = 1
             /\ st'[1].total_reinforcements = st'[1].total_updates - 1
             /\ WholeOf(st'[1].slots[1].weight) = st'[1].total_updates
             /\ F32Le(st'[1].plasticity, st[1].plasticity)
             /\ F32Ge(st'[1].plasticity, CR_EPSILON)
             /\ st[1].plasticity = CR_EPSILON => Crystallized(st'[1])]_vars
  /\ <>[](host \in {"soak", "faint"} => Alive /\ Crystallized(st[1]))

\* what does hold of the soaking host, whose pattern is of unit length:
\* all of the above but the weight
CrystallizationOfPlasticity ==
  /\ [][(host = "soak" /\ Alive /\ IsUpdate /\ last'.ret = 0)
          => /\ st'[1].slot_count = 1
             /\ st'[1].total_reinforcements = st'[1].total_updates - 1
             /\ F32Le(st'[1].plasticity, st[1].plasticity)
             /\ F32Ge(st'[1].plasticity, CR_EPSILON)
             /\ st[1].plasticity = CR_EPSILON => Crystallized(st'[1])]_vars
  /\ <>[](host = "soak" => Alive /\ Crystallized(st[1]))

\* the step is an accepted update of a full store that no slot matches
DiscardStep ==
  /\ Alive /\ last'.op = "update"
  /\ ~BreaksUpdatePrecondition(last'.arg, st)
  /\ st[1].slot_count = st[1].rt.max_slots
  /\ NoSlotAbove(st[1], last'.arg[2][1])

\* the recovering host on a store of one slot: after its first two updates
\* no update of its matches the slot
RecoveringOnOne == host = "recover" /\ Alive /\ st[1].rt.max_slots = 1

\* C39: an update of a full store that matches no slot changes no slot and
\* raises the plasticity, or leaves it 1.0 where it is 1.0 already; the
\* recovering host's unbroken run of such updates ends with the plasticity
\* 1.0 exactly and for good; and a query made while the plasticity is 1.0
\* returns 0 with confidence 0, the slots being what they were
C39_DiscardsEraseConfidence ==
  /\ [][DiscardStep
          => /\ st'[1].slots = st[1].slots
             /\ st'[1].slot_count = st[1].slot_count
             /\ F32Lt(st[1].plasticity, F32One)
                  => F32Gt(st'[1].plasticity, st[1].plasticity)
             /\ st[1].plasticity = F32One => st'[1].plasticity = F32One]_vars
  /\ [][(/\ Alive /\ last'.op = "query"
         /\ QueryAccepted(last'.arg, st[1])
         /\ st[1].plasticity = F32One)
          => /\ last'.ret = 0
             /\ F32Eq(last'.out[1].confidence, F32Zero(0))
             /\ st' = st]_vars
  /\ <>[](RecoveringOnOne => st[1].plasticity = F32One /\ Unaccounted(st[1]) > 0)

\* the recovering host has asked for the pattern its one slot holds, after
\* reinforcing it and then discarding observations until the plasticity is
\* back at 1.0: the hint names the slot, whose weight is still 2.0, with
\* confidence 0
C39_Witness ==
  /\ RecoveringOnOne
  /\ last.op = "query" /\ last.ret = 0
  /\ st[1].total_reinforcements = 1
  /\ Unaccounted(st[1]) > 0
  /\ st[1].plasticity = F32One
  /\ last.out[1].vector = 1
  /\ st[1].slots[1] = [vector |-> VecE1, weight |-> F32OfInt(2)]
  /\ F32Eq(last.out[1].confidence, F32Zero(0))

====
